---- MODULE Spec2Model ----
(***************************************************************************)
(* Open-Claude-Cowork: the permission gateway (createCanUseTool), the       *)
(* provider URL admission control (validateProviderUrl), the credential    *)
(* vault (provider-config.ts) and the path admission of the session store. *)
(*                                                                         *)
(* Strings the code inspects character by character (tool names, the       *)
(* allow-list, host names) are sequences of one-character strings.         *)
(* Time is discrete; a setTimeout / setInterval callback runs at the tick  *)
(* at which it expires (Tick is disabled while a timer is due).            *)
(***************************************************************************)
EXTENDS Integers, Sequences, FiniteSets, TLC

VARIABLES
    fullConfig,           \* createCanUseTool: { ...DEFAULT, ...config }
    permissionMode,       \* context.permissionMode
    sessionAllowedTools,  \* session.allowedTools (string or undefined)
    now,                  \* Date.now()
    pendingPermissions,   \* session.pendingPermissions: toolUseId -> entry
    timers,               \* armed setTimeout handles: toolUseId -> expiry
    promise,              \* the Promise returned by canUseTool, per toolUseId
    abortListeners,       \* abortHandler closures registered on the signal
    aborted,              \* signal.aborted
    engine,               \* the execution engine of the run: running / stopped
    endTime,              \* Date.now() when the engine stopped
    cleanupIntervalId,    \* null, or the next expiry of the setInterval
    cleanupStarted,       \* closure flag of createCanUseTool
    sent,                 \* toolUseIds of the permission.request events sent
    lastCall,             \* the last canUseTool invocation and what it returned
    resolveCalls,         \* times the promise's resolve() was invoked, per id
    nextId,               \* stands for crypto.randomUUID(): next fresh id
    allowLocalRead,       \* ALLOW_LOCAL_PROVIDERS_READ: the env var at module load
    url,                  \* the argument of the last validateProviderUrl call
    verdict,              \* what that call returned
    env,                  \* process.env.CLAUDE_COWORK_ALLOW_LOCAL_PROVIDERS now
    envLocked,            \* Object.defineProperty made it non-writable
    providersFile,        \* providers.json: missing, a list, or damaged content
    encryptionAvailable,  \* safeStorage.isEncryptionAvailable()
    vaultOp,              \* the last vault call: arguments, effects, outcome
    taskQueue,            \* event loop: vault calls whose IPC event has arrived
    inProgress,           \* vault calls that have read the file and not returned
    applied,              \* the vault calls that returned, in order
    processCwd,           \* process.cwd()
    fs,                   \* the filesystem: path -> directory, file or nothing
    lastPresent,          \* history of fs: path -> the last time it was there
    storeNow,             \* Date.now() as the session store reads it
    pathValidationCache,  \* SessionStore.pathValidationCache: resolved -> entry
    sessions,             \* SessionStore.sessions: id -> Session
    db,                   \* sessions.db: the sessions and messages tables
    storeOp,              \* the last session-store call and its outcome
    runPc,                \* runClaude's async body: idle, streaming, resulted, done
    sessionStatus,        \* session.status of the session the run belongs to
    events,               \* what the run has passed to onEvent, in order
    browserProcess,       \* BrowserProcessManager.browserProcess: null or a pid
    browserStatus,        \* BrowserProcessManager.status
    processes,            \* the Chrome processes spawned: pid -> state
    cdpOwner,             \* the process answering on the debug port, or none
    browserCalls,         \* start() and stop() calls that are awaiting
    logValue,             \* the value handed to sanitizeForLog
    logged,               \* what sanitizeForLog returned for it
    logCalls              \* how often sanitizeForLog was applied to get it

gatewayVars == <<fullConfig, permissionMode, sessionAllowedTools, now,
                 pendingPermissions, timers, promise, abortListeners, aborted,
                 engine, endTime, cleanupIntervalId, cleanupStarted, sent,
                 lastCall, resolveCalls, nextId>>
urlVars == <<allowLocalRead, url, verdict, env, envLocked>>
vaultVars == <<providersFile, encryptionAvailable, vaultOp>>
loopVars == <<taskQueue, inProgress, applied>>
storeVars == <<processCwd, fs, lastPresent, storeNow, pathValidationCache,
               sessions, db, storeOp>>
runVars == <<runPc, sessionStatus, events>>
browserVars == <<browserProcess, browserStatus, processes, cdpOwner, browserCalls>>
logVars == <<logValue, logged, logCalls>>
vars == <<gatewayVars, urlVars, vaultVars, loopVars, storeVars, runVars,
          browserVars, logVars>>

nonGatewayVars ==
    <<urlVars, vaultVars, loopVars, storeVars, runVars, browserVars,
      logVars>>
nonUrlVars ==
    <<gatewayVars, vaultVars, loopVars, storeVars, runVars, browserVars,
      logVars>>
nonVaultVars ==
    <<gatewayVars, urlVars, loopVars, storeVars, runVars, browserVars,
      logVars>>
nonStoreVars ==
    <<gatewayVars, urlVars, vaultVars, loopVars, runVars, browserVars,
      logVars>>
nonRunVars ==
    <<gatewayVars, urlVars, vaultVars, loopVars, storeVars, browserVars,
      logVars>>
nonBrowserVars ==
    <<gatewayVars, urlVars, vaultVars, loopVars, storeVars, runVars,
      logVars>>

(***************************************************************************)
(* Bounds                                                                  *)
(***************************************************************************)
MaxReqs == 2          \* toolUseIds a run can hand out
MaxTime == 3          \* last tick of the clock
MaxCap == 2           \* largest maxPendingPermissions tried

Ids == 1..MaxReqs
NoTimer == -1
Undefined == <<"undefined">>

(***************************************************************************)
(* Character strings                                                       *)
(***************************************************************************)
UpperCase == <<"A","B","C","D","E","F","G","H","I","J","K","L","M",
               "N","O","P","Q","R","S","T","U","V","W","X","Y","Z">>
LowerCase == <<"a","b","c","d","e","f","g","h","i","j","k","l","m",
               "n","o","p","q","r","s","t","u","v","w","x","y","z">>

\* String.prototype.toLowerCase on one character
toLowerChar(c) ==
    IF \E i \in 1..26 : UpperCase[i] = c
    THEN LowerCase[CHOOSE i \in 1..26 : UpperCase[i] = c]
    ELSE c

\* String.prototype.toLowerCase
toLowerCase(s) == [i \in 1..Len(s) |-> toLowerChar(s[i])]

RECURSIVE trimStart(_)
trimStart(s) == IF s # <<>> /\ Head(s) = " " THEN trimStart(Tail(s)) ELSE s

RECURSIVE trimEnd(_)
trimEnd(s) ==
    IF s # <<>> /\ s[Len(s)] = " " THEN trimEnd(SubSeq(s, 1, Len(s) - 1)) ELSE s

\* String.prototype.trim
trim(s) == trimEnd(trimStart(s))

\* String.prototype.split(","): the pieces between the commas, in order
RECURSIVE splitComma(_, _)
splitComma(s, cur) ==
    IF s = <<>> THEN <<cur>>
    ELSE IF Head(s) = "," THEN <<cur>> \o splitComma(Tail(s), <<>>)
    ELSE splitComma(Tail(s), Append(cur, Head(s)))

startsWith(s, p) == Len(s) >= Len(p) /\ SubSeq(s, 1, Len(p)) = p

(***************************************************************************)
(* Tools, allow-lists, inputs                                              *)
(***************************************************************************)
AskUserQuestion == <<"A","s","k","U","s","e","r","Q","u","e","s","t","i","o","n">>
Bash == <<"B","a","s","h">>
Read == <<"R","e","a","d">>

ToolNames == {AskUserQuestion, toLowerCase(AskUserQuestion), Bash, Read}

\* values of session.allowedTools: undefined, "  ", ",", "Read", " bash ,READ"
AllowedToolsInputs ==
    {Undefined,
     <<" ", " ">>,
     <<",">>,
     Read,
     <<" ","b","a","s","h"," ",",","R","E","A","D">>}

\* the input the engine passes with each tool
InputOf(toolName) ==
    IF toolName = Bash THEN "command"
    ELSE IF toolName = Read THEN "file_path"
    ELSE "questions"

\* parseAllowedTools: null when there is no restriction, else the set of the
\* trimmed, non-empty, lower-cased items
Null == [isNull |-> TRUE, items |-> {}]
SetOf(items) == [isNull |-> FALSE, items |-> items]
parseAllowedTools(allowedTools) ==
    IF allowedTools = Undefined \/ trim(allowedTools) = <<>>
    THEN Null
    ELSE LET pieces == splitComma(allowedTools, <<>>)
             items == {trim(pieces[i]) : i \in 1..Len(pieces)} \ {<<>>}
         IN  SetOf({toLowerCase(t) : t \in items})

isToolAllowedNoException(toolName, allowedTools) ==
    IF allowedTools.isNull THEN TRUE
    ELSE toLowerCase(toolName) \in allowedTools.items

isToolAllowedAnyCase(toolName, allowedTools) ==
    IF toLowerCase(toolName) = toLowerCase(AskUserQuestion) THEN TRUE
    ELSE IF allowedTools.isNull THEN TRUE
    ELSE toLowerCase(toolName) \in allowedTools.items

\* isToolAllowed
isToolAllowed(toolName, allowedTools) ==
    IF toolName = AskUserQuestion THEN TRUE
    ELSE IF allowedTools.isNull THEN TRUE
    ELSE toLowerCase(toolName) \in allowedTools.items

(***************************************************************************)
(* Permission results and promises                                         *)
(***************************************************************************)
Allow(input) == [behavior |-> "allow", payload |-> input]
Deny(message) == [behavior |-> "deny", payload |-> message]
NoResult == [behavior |-> "none", payload |-> ""]

MsgPolicy == "is not allowed by allowedTools restriction"
MsgCapacity == "Too many pending permission requests"
MsgTimeout == "Permission request timed out after 5 minutes"
MsgAborted == "Session aborted"

\* the results a permission.response event can carry
UiResults == {Allow("answers"), Deny("User denied")}

NotCreated == [state |-> "none", value |-> NoResult]
Pending == [state |-> "pending", value |-> NoResult]
Fulfilled(result) == [state |-> "fulfilled", value |-> result]

resolveLastWins(p, result) == Fulfilled(result)

\* resolve(result) of `new Promise((resolve) => ...)`: settles a pending
\* promise, and does nothing to a settled one
resolve(p, result) == IF p.state = "pending" THEN Fulfilled(result) ELSE p

(***************************************************************************)
(* createCanUseTool: helpers                                               *)
(***************************************************************************)
\* <<permissionTimeoutMs, cleanupIntervalMs, staleThresholdMs>>: the order of
\* the defaults (interval < timeout < stale threshold) and the other orders
Timings == {<<2, 1, 3>>, <<2, 1, 0>>, <<1, 2, 1>>}

Configs ==
    {[maxPendingPermissions |-> cap,
      permissionTimeoutMs |-> t[1],
      cleanupIntervalMs |-> t[2],
      staleThresholdMs |-> t[3]] : cap \in 1..MaxCap, t \in Timings}

Restrict(f, S) == [x \in S |-> f[x]]

cleanupEntryKeepsEntry(st, ids) ==
    [pp |-> st.pp,
     tm |-> Restrict(st.tm, DOMAIN st.tm \ ids)]

\* cleanupEntry, applied to each id of ids: clearTimeout + Map.delete
cleanupEntry(st, ids) ==
    [pp |-> Restrict(st.pp, DOMAIN st.pp \ ids),
     tm |-> Restrict(st.tm, DOMAIN st.tm \ ids)]

\* the entries a sweep at time t finds stale: createdAt < now - staleThresholdMs
StaleIds(pp, t, cfg) ==
    {id \in DOMAIN pp : pp[id].createdAt < t - cfg.staleThresholdMs}

DecideFreeParks(toolName, mode, allowedTools) ==
    IF ~isToolAllowed(toolName, allowedTools) THEN "deny_policy" ELSE "ask"

\* the policy part of canUseTool: "allow" and "deny_policy" return at once,
\* "ask" goes on to the capacity check
Decide(toolName, mode, allowedTools) ==
    IF toolName # AskUserQuestion /\ mode = "free"
    THEN IF ~isToolAllowed(toolName, allowedTools)
         THEN "deny_policy" ELSE "allow"
    ELSE IF ~isToolAllowed(toolName, allowedTools)
         THEN "deny_policy" ELSE "ask"

AtCapacityStrict(size, cfg) == size > cfg.maxPendingPermissions

\* session.pendingPermissions.size >= fullConfig.maxPendingPermissions
AtCapacity(size, cfg) == size >= cfg.maxPendingPermissions

NoCall == [toolName |-> <<>>, input |-> "", outcome |-> "none",
           result |-> NoResult, id |-> 0]

\* no canUseTool result is waiting to be picked up by the awaiting caller
Idle == lastCall.outcome = "none"

(***************************************************************************)
(* Initial state: createCanUseTool has been called for a fresh run         *)
(***************************************************************************)
GatewayStart ==
    /\ now = 0
    /\ pendingPermissions = <<>>
    /\ timers = <<>>
    /\ promise = [id \in Ids |-> NotCreated]
    /\ abortListeners = {}
    /\ aborted = FALSE
    /\ engine = "running"
    /\ endTime = 0
    /\ cleanupIntervalId = NoTimer
    /\ cleanupStarted = FALSE
    /\ sent = {}
    /\ lastCall = NoCall
    /\ resolveCalls = [id \in Ids |-> 0]
    /\ nextId = 1

NoUrl == [scheme |-> <<>>, host |-> [kind |-> "none"]]
NoVerdict == [valid |-> FALSE, error |-> "not called"]

UrlIdle ==
    /\ allowLocalRead = "undefined"
    /\ url = NoUrl
    /\ verdict = NoVerdict
    /\ env = "undefined"
    /\ envLocked = FALSE

\* providers.json does not exist
Missing == [kind |-> "missing", items |-> <<>>]
NoVaultOp == [op |-> "none"]

LoopIdle ==
    /\ taskQueue = <<>>
    /\ inProgress = <<>>
    /\ applied = <<>>

\* process.cwd() of the packaged application
RootCwd == <<"/", "w">>
NoStoreOp == [op |-> "none"]
\* the two tables after initialize() on a new file: sessions by id, messages
\* in rowid order
EmptyDb == [sessions |-> <<>>, messages |-> <<>>]

\* a fresh SessionStore over an empty database and an empty disk
StoreIdle ==
    /\ processCwd = RootCwd
    /\ fs = {}
    /\ lastPresent = <<>>
    /\ storeNow = 0
    /\ pathValidationCache = {}
    /\ sessions = <<>>
    /\ db = EmptyDb
    /\ storeOp = NoStoreOp

nonLogVars ==
    <<gatewayVars, urlVars, vaultVars, loopVars, storeVars, runVars,
      browserVars>>

\* nothing logged yet
LogIdle ==
    /\ logValue = <<>>
    /\ logged = <<>>
    /\ logCalls = 0

\* no run of runClaude yet
RunIdle ==
    /\ runPc = "idle"
    /\ sessionStatus = "idle"
    /\ events = <<>>

\* null: no managed process, no process on the port
NoProcess == 0

\* BrowserProcessManager.getInstance() on first use
BrowserIdle ==
    /\ browserProcess = NoProcess
    /\ browserStatus = "stopped"
    /\ processes = <<>>
    /\ cdpOwner = NoProcess
    /\ browserCalls = {}

VaultIdle ==
    /\ providersFile = Missing
    /\ encryptionAvailable = TRUE
    /\ vaultOp = NoVaultOp
    /\ LoopIdle

Init ==
    /\ LogIdle
    /\ RunIdle
    /\ BrowserIdle
    /\ fullConfig \in Configs
    /\ permissionMode \in {"secure", "free"}
    /\ sessionAllowedTools \in AllowedToolsInputs
    /\ GatewayStart
    /\ UrlIdle
    /\ VaultIdle
    /\ StoreIdle

(***************************************************************************)
(* canUseTool                                                              *)
(***************************************************************************)
\* startPeriodicCleanup, on the first call only
IntervalAfterCall ==
    IF ~cleanupStarted /\ cleanupIntervalId = NoTimer
    THEN now + fullConfig.cleanupIntervalMs
    ELSE cleanupIntervalId

\* canUseTool, with what the onEvent callback does while
\* sendPermissionRequest runs: nothing (answer is NoResult), or it hands a
\* permission.response for the new toolUseId to PermissionResponseHandler,
\* which looks the id up in the map as it is at that moment
CanUseToolAnswered(toolName, input, answer) ==
    /\ Idle
    /\ engine = "running"
    /\ now + fullConfig.permissionTimeoutMs <= MaxTime
    /\ LET allowedTools == parseAllowedTools(sessionAllowedTools)
           decision == Decide(toolName, permissionMode, allowedTools)
           full == AtCapacity(Cardinality(DOMAIN pendingPermissions), fullConfig)
           swept == IF full
                    THEN cleanupEntry([pp |-> pendingPermissions, tm |-> timers],
                                      StaleIds(pendingPermissions, now, fullConfig))
                    ELSE [pp |-> pendingPermissions, tm |-> timers]
           stillFull == full /\ AtCapacity(Cardinality(DOMAIN swept.pp), fullConfig)
           toolUseId == nextId
           delivered == answer # NoResult /\ toolUseId \in DOMAIN swept.pp
       IN
       /\ cleanupIntervalId' = IntervalAfterCall
       /\ cleanupStarted' = TRUE
       /\ IF decision = "allow" THEN
              /\ lastCall' = [toolName |-> toolName,
               input |-> input, outcome |-> "allow",
               result |-> Allow(input), id |-> 0]
              /\ UNCHANGED <<pendingPermissions, timers, promise, abortListeners,
                             sent, nextId>>
          ELSE IF decision = "deny_policy" THEN
              /\ lastCall' = [toolName |-> toolName,
               input |-> input, outcome |-> "deny_policy",
               result |-> Deny(MsgPolicy), id |-> 0]
              /\ UNCHANGED <<pendingPermissions, timers, promise, abortListeners,
                             sent, nextId>>
          ELSE IF stillFull THEN
              /\ lastCall' = [toolName |-> toolName,
               input |-> input, outcome |-> "deny_capacity",
               result |-> Deny(MsgCapacity), id |-> 0]
              /\ pendingPermissions' = swept.pp
              /\ timers' = swept.tm
              /\ UNCHANGED <<promise, abortListeners, sent, nextId>>
          ELSE
              /\ nextId <= MaxReqs
              /\ lastCall' = [toolName |-> toolName,
               input |-> input, outcome |-> "parked",
               result |-> NoResult, id |-> toolUseId, answer |-> answer]
              /\ sent' = sent \cup {toolUseId}
              /\ pendingPermissions' =
                     [id \in DOMAIN swept.pp \cup {toolUseId} |->
                         IF id = toolUseId
                         THEN [toolName |-> toolName, input |-> input,
                               createdAt |-> now]
                         ELSE swept.pp[id]]
              /\ timers' =
                     [id \in DOMAIN swept.tm \cup {toolUseId} |->
                         IF id = toolUseId
                         THEN now + fullConfig.permissionTimeoutMs
                         ELSE swept.tm[id]]
              /\ promise' = [promise EXCEPT ![toolUseId] =
                                IF delivered THEN resolve(Pending, answer)
                                ELSE Pending]
              /\ abortListeners' = abortListeners \cup {toolUseId}
              /\ nextId' = nextId + 1
    /\ UNCHANGED <<fullConfig, permissionMode, sessionAllowedTools, now, aborted,
                   engine, endTime, resolveCalls>>
    /\ UNCHANGED nonGatewayVars

\* the UI answers later, from another task of the event loop
CanUseTool(toolName, input) == CanUseToolAnswered(toolName, input, NoResult)

(***************************************************************************)
(* The resolution paths of a parked request                                *)
(***************************************************************************)
\* PermissionResponseHandler.handle: look the entry up, call pending.resolve,
\* which is cleanupEntry(toolUseId, entry); resolve(result)
PermissionResponse(toolUseId, result) ==
    /\ Idle
    /\ toolUseId \in DOMAIN pendingPermissions
    /\ LET st == cleanupEntry([pp |-> pendingPermissions, tm |-> timers],
                              {toolUseId})
       IN  /\ pendingPermissions' = st.pp
           /\ timers' = st.tm
    /\ promise' = [promise EXCEPT ![toolUseId] = resolve(@, result)]
    /\ resolveCalls' = [resolveCalls EXCEPT ![toolUseId] = @ + 1]
    /\ UNCHANGED <<fullConfig, permissionMode, sessionAllowedTools, now,
                   abortListeners, aborted, engine, endTime, cleanupIntervalId,
                   cleanupStarted, sent, lastCall, nextId>>
    /\ UNCHANGED nonGatewayVars

\* the setTimeout callback of a parked request
Timeout(toolUseId) ==
    /\ Idle
    /\ toolUseId \in DOMAIN timers
    /\ timers[toolUseId] <= now
    /\ LET fired == [pp |-> pendingPermissions,
                     tm |-> Restrict(timers, DOMAIN timers \ {toolUseId})]
           st == cleanupEntry(fired, {toolUseId})
       IN  /\ pendingPermissions' = st.pp
           /\ timers' = st.tm
    /\ promise' = [promise EXCEPT ![toolUseId] = resolve(@, Deny(MsgTimeout))]
    /\ resolveCalls' = [resolveCalls EXCEPT ![toolUseId] = @ + 1]
    /\ UNCHANGED <<fullConfig, permissionMode, sessionAllowedTools, now,
                   abortListeners, aborted, engine, endTime, cleanupIntervalId,
                   cleanupStarted, sent, lastCall, nextId>>
    /\ UNCHANGED nonGatewayVars

\* abortController.abort(): the signal dispatches "abort" once, to every
\* abortHandler registered at that moment
Abort ==
    /\ Idle
    /\ ~aborted
    /\ aborted' = TRUE
    /\ LET st == cleanupEntry([pp |-> pendingPermissions, tm |-> timers],
                              abortListeners)
       IN  /\ pendingPermissions' = st.pp
           /\ timers' = st.tm
    /\ promise' = [id \in Ids |->
                      IF id \in abortListeners
                      THEN resolve(promise[id], Deny(MsgAborted))
                      ELSE promise[id]]
    /\ resolveCalls' = [id \in Ids |->
                           IF id \in abortListeners
                           THEN resolveCalls[id] + 1 ELSE resolveCalls[id]]
    /\ abortListeners' = {}
    /\ UNCHANGED <<fullConfig, permissionMode, sessionAllowedTools, now, engine,
                   endTime, cleanupIntervalId, cleanupStarted, sent, lastCall,
                   nextId>>
    /\ UNCHANGED nonGatewayVars

\* the setInterval callback of startPeriodicCleanup
Sweep ==
    /\ Idle
    /\ cleanupIntervalId # NoTimer
    /\ cleanupIntervalId <= now
    /\ cleanupIntervalId' = cleanupIntervalId + fullConfig.cleanupIntervalMs
    /\ LET st == cleanupEntry([pp |-> pendingPermissions, tm |-> timers],
                              StaleIds(pendingPermissions, now, fullConfig))
       IN  /\ pendingPermissions' = st.pp
           /\ timers' = st.tm
    /\ UNCHANGED <<fullConfig, permissionMode, sessionAllowedTools, now, promise,
                   abortListeners, aborted, engine, endTime, cleanupStarted, sent,
                   lastCall, resolveCalls, nextId>>
    /\ UNCHANGED nonGatewayVars

\* the engine's message stream ends: no further canUseTool call of this run
EngineStop ==
    /\ Idle
    /\ engine = "running"
    /\ engine' = "stopped"
    /\ endTime' = now
    /\ UNCHANGED <<fullConfig, permissionMode, sessionAllowedTools, now,
                   pendingPermissions, timers, promise, abortListeners, aborted,
                   cleanupIntervalId, cleanupStarted, sent, lastCall,
                   resolveCalls, nextId>>
    /\ UNCHANGED nonGatewayVars

\* the caller's await on the value canUseTool returned resumes: a microtask,
\* which runs before any timer callback or event handler
CallReturns ==
    /\ ~Idle
    /\ lastCall' = NoCall
    /\ UNCHANGED <<fullConfig, permissionMode, sessionAllowedTools, now,
                   pendingPermissions, timers, promise, abortListeners, aborted,
                   engine, endTime, cleanupIntervalId, cleanupStarted, sent,
                   resolveCalls, nextId>>
    /\ UNCHANGED nonGatewayVars

TimerDue == \E id \in DOMAIN timers : timers[id] <= now
SweepDue == cleanupIntervalId # NoTimer /\ cleanupIntervalId <= now

\* the clock advances when no timer callback is due
Tick ==
    /\ Idle
    /\ now < MaxTime
    /\ ~TimerDue
    /\ ~SweepDue
    /\ now' = now + 1
    /\ UNCHANGED <<fullConfig, permissionMode, sessionAllowedTools,
                   pendingPermissions, timers, promise, abortListeners, aborted,
                   engine, endTime, cleanupIntervalId, cleanupStarted, sent,
                   lastCall, resolveCalls, nextId>>
    /\ UNCHANGED nonGatewayVars

Next ==
    \/ \E toolName \in ToolNames : CanUseTool(toolName, InputOf(toolName))
    \/ CallReturns
    \/ \E toolUseId \in Ids, result \in UiResults :
           PermissionResponse(toolUseId, result)
    \/ \E toolUseId \in Ids : Timeout(toolUseId)
    \/ Abort
    \/ Sweep
    \/ EngineStop
    \/ Tick

Spec == Init /\ [][Next]_vars

\* a run in secure mode whose onEvent callback may answer a request while
\* it is being sent
CallbackInit ==
    /\ LogIdle
    /\ RunIdle
    /\ BrowserIdle
    /\ fullConfig \in {cfg \in Configs : cfg.maxPendingPermissions = MaxCap}
    /\ permissionMode = "secure"
    /\ sessionAllowedTools = Undefined
    /\ GatewayStart
    /\ UrlIdle
    /\ VaultIdle
    /\ StoreIdle

CallbackNext ==
    \/ \E toolName \in ToolNames, answer \in UiResults \cup {NoResult} :
           CanUseToolAnswered(toolName, InputOf(toolName), answer)
    \/ CallReturns
    \/ \E toolUseId \in Ids, result \in UiResults :
           PermissionResponse(toolUseId, result)
    \/ \E toolUseId \in Ids : Timeout(toolUseId)
    \/ Abort
    \/ Sweep
    \/ EngineStop
    \/ Tick

CallbackSpec == CallbackInit /\ [][CallbackNext]_vars

\* The event loop drives the microtask, the clock and the timer callbacks:
\* however many calls, responses and aborts arrive, time passes and a due
\* timer callback runs. Calls, UI responses, aborts and the end of the engine
\* are up to the environment.
FairSpec ==
    /\ Spec
    /\ WF_vars(CallReturns)
    /\ SF_vars(Tick)
    /\ SF_vars(Sweep)
    /\ SF_vars(\E toolUseId \in Ids : Timeout(toolUseId))

(***************************************************************************)
(* validateProviderUrl                                                     *)
(***************************************************************************)
Digits == <<"0","1","2","3","4","5","6","7","8","9","a","b","c","d","e","f">>

\* the digits of n in the given radix, without leading zeros
RECURSIVE toRadix(_, _)
toRadix(n, radix) ==
    IF n < radix THEN <<Digits[n + 1]>>
    ELSE Append(toRadix(n \div radix, radix), Digits[(n % radix) + 1])

Str_localhost == <<"l","o","c","a","l","h","o","s","t">>
Str_http == <<"h","t","t","p">>
Str_https == <<"h","t","t","p","s">>

\* hosts as written in a URL: a domain name, an IPv4 address o1.o2.o3.o4, or
\* an IPv6 literal [first:0:0:0:0:0:0:last]
NameHosts ==
    {[kind |-> "name", text |-> t] :
        t \in {Str_localhost,
               <<"L","o","c","a","l","H","o","s","t">>,
               <<"a","p","i",".","x",".","i","o">>}}
Ipv4Hosts ==
    {[kind |-> "ipv4", o |-> <<o1, o2, 0, 1>>] :
        o1 \in {0, 8, 10, 127, 169, 172, 192},
        o2 \in {0, 15, 16, 31, 32, 168, 254}}
Ipv6Hosts ==
    {[kind |-> "ipv6", first |-> f, last |-> l] :
        f \in {0, 8193, 64512, 64768, 65152, 65168, 65215, 65216},
        l \in {1, 2}}
EmptyHost == [kind |-> "empty"]
Hosts == NameHosts \cup Ipv4Hosts \cup Ipv6Hosts \cup {EmptyHost}

\* schemes as written; <<>> is a string with no scheme at all
Schemes == {<<>>, Str_http, <<"H","T","T","P">>, Str_https,
            <<"f","t","p">>, <<"f","i","l","e">>}

Urls == [scheme : Schemes, host : Hosts]

\* the WHATWG host serializer: names are lower-cased, IPv4 is dotted decimal,
\* IPv6 is compressed lower-case hexadecimal inside square brackets
serializeHost(host) ==
    CASE host.kind = "name" -> toLowerCase(host.text)
      [] host.kind = "ipv4" ->
            toRadix(host.o[1], 10) \o <<".">> \o toRadix(host.o[2], 10) \o <<".">>
            \o toRadix(host.o[3], 10) \o <<".">> \o toRadix(host.o[4], 10)
      [] host.kind = "ipv6" ->
            <<"[">> \o (IF host.first = 0 THEN <<>> ELSE toRadix(host.first, 16))
            \o <<":", ":">> \o toRadix(host.last, 16) \o <<"]">>
      [] OTHER -> <<>>

\* new URL(url): throws without a scheme, and for http, https and ftp without
\* a host; otherwise yields protocol (lower-case, with the colon) and hostname
ParseFailed == [ok |-> FALSE, protocol |-> <<>>, hostname |-> <<>>]
newURL(u) ==
    IF u.scheme = <<>> THEN ParseFailed
    ELSE IF u.host = EmptyHost /\ toLowerCase(u.scheme) # <<"f","i","l","e">>
    THEN ParseFailed
    ELSE [ok |-> TRUE,
          protocol |-> Append(toLowerCase(u.scheme), ":"),
          hostname |-> serializeHost(u.host)]

IsDigitIn(c, ds) == \E i \in 1..Len(ds) : ds[i] = c

\* /^172\.(1[6-9]|2[0-9]|3[01])\./
match172(h) ==
    /\ startsWith(h, <<"1","7","2",".">>)
    /\ Len(h) >= 7
    /\ \/ h[5] = "1" /\ IsDigitIn(h[6], <<"6","7","8","9">>)
       \/ h[5] = "2" /\ IsDigitIn(h[6], SubSeq(Digits, 1, 10))
       \/ h[5] = "3" /\ IsDigitIn(h[6], <<"0","1">>)
    /\ h[7] = "."

\* blockedPatterns: some pattern of the list matches the hostname
blockedPatterns(h) ==
    \/ h = Str_localhost
    \/ startsWith(h, <<"1","2","7",".">>)
    \/ startsWith(h, <<"1","0",".">>)
    \/ match172(h)
    \/ startsWith(h, <<"1","9","2",".","1","6","8",".">>)
    \/ startsWith(h, <<"1","6","9",".","2","5","4",".">>)
    \/ startsWith(h, <<"0",".">>)
    \/ h = <<":",":","1">>
    \/ startsWith(toLowerCase(h), <<"f","c","0","0",":">>)
    \/ startsWith(toLowerCase(h), <<"f","e","8","0",":">>)

\* ALLOW_LOCAL_PROVIDERS
ALLOW_LOCAL_PROVIDERS(read) == read = "true" \/ read = "1"

Valid == [valid |-> TRUE, error |-> ""]
Invalid(error) == [valid |-> FALSE, error |-> error]

validateProviderUrl(u, read) ==
    LET parsed == newURL(u)
    IN  IF ~parsed.ok THEN Invalid("Invalid URL format")
        ELSE IF parsed.protocol # Append(Str_https, ":")
                /\ parsed.protocol # Append(Str_http, ":")
        THEN Invalid("Only HTTP/HTTPS URLs are allowed")
        ELSE IF ALLOW_LOCAL_PROVIDERS(read) THEN Valid
        ELSE IF blockedPatterns(toLowerCase(parsed.hostname))
        THEN Invalid("Internal/private URLs are not allowed")
        ELSE Valid

\* a validateProviderUrl that consulted process.env at each call
ValidateProviderUrlRereadsEnv(u) ==
    /\ url' = u
    /\ verdict' = validateProviderUrl(u, env)
    /\ UNCHANGED <<allowLocalRead, env, envLocked>>
    /\ UNCHANGED nonUrlVars

ValidateProviderUrl(u) ==
    /\ url' = u
    /\ verdict' = validateProviderUrl(u, allowLocalRead)
    /\ UNCHANGED <<allowLocalRead, env, envLocked>>
    /\ UNCHANGED nonUrlVars

\* process.env.CLAUDE_COWORK_ALLOW_LOCAL_PROVIDERS = v (or delete, for
\* "undefined") by any code of the process after module load; on a property
\* made non-writable and non-configurable the write has no effect
SetEnv(v) ==
    /\ env' = IF envLocked THEN env ELSE v
    /\ env' # env
    /\ UNCHANGED <<allowLocalRead, url, verdict, envLocked>>
    /\ UNCHANGED nonUrlVars

\* the values CLAUDE_COWORK_ALLOW_LOCAL_PROVIDERS has at module load
EnvValues == {"undefined", "true", "1", "false", "TRUE"}

GatewayIdle ==
    /\ fullConfig = [maxPendingPermissions |-> 1, permissionTimeoutMs |-> 2,
                     cleanupIntervalMs |-> 1, staleThresholdMs |-> 3]
    /\ permissionMode = "secure"
    /\ sessionAllowedTools = Undefined
    /\ GatewayStart

\* module load: the variable is read once; when it is defined the module
\* tries to freeze it to "true" / "false", which process.env may refuse
UrlInit ==
    /\ LogIdle
    /\ RunIdle
    /\ BrowserIdle
    /\ GatewayIdle
    /\ VaultIdle
    /\ StoreIdle
    /\ allowLocalRead \in EnvValues
    /\ envLocked \in (IF allowLocalRead = "undefined" THEN {FALSE} ELSE BOOLEAN)
    /\ env = IF envLocked
             THEN (IF ALLOW_LOCAL_PROVIDERS(allowLocalRead) THEN "true" ELSE "false")
             ELSE allowLocalRead
    /\ url = NoUrl
    /\ verdict = NoVerdict

\* the values written to the variable after startup
EnvWrites == {"true", "false"}

UrlNext ==
    \/ \E u \in Urls : ValidateProviderUrl(u)
    \/ \E v \in EnvWrites : SetEnv(v)

UrlSpec == UrlInit /\ [][UrlNext]_vars

TypeOK ==
    /\ now \in 0..MaxTime
    /\ DOMAIN pendingPermissions \subseteq Ids
    /\ DOMAIN timers \subseteq Ids
    /\ nextId \in 1..(MaxReqs + 1)

(***************************************************************************)
(* The credential vault: encryption of the stored tokens                   *)
(***************************************************************************)
ENCRYPTED_TOKEN_PREFIX == <<"E","N","C",":","v","1",":">>

ProviderIds == {1, 2}
NoId == 0             \* a payload without id

\* secrets a user types: two ordinary API keys and one that happens to
\* begin with the characters of the storage prefix
Secret1 == <<"s","k","-","1">>
Secret2 == <<"s","k","-","2">>
PrefixedSecret == ENCRYPTED_TOKEN_PREFIX \o <<"x">>
Secrets == {Secret1, Secret2, PrefixedSecret}

\* a key as long as real ones, and a long string of base64 letters
LongSecret == [i \in 1..98 |-> "k"]
LongPlain == [i \in 1..101 |-> "B"]

Reverse(s) == [i \in 1..Len(s) |-> s[Len(s) + 1 - i]]

\* safeStorage.encryptString: the bytes of an OS-keyed ciphertext, which
\* carry a version header; stands for the platform cipher, of which only
\* this is used: it is injective, its output differs from its input, and
\* decryptString inverts it and throws on bytes it did not produce
CipherHeader == <<"v","1","0">>
encryptString(plainText) == CipherHeader \o Reverse(plainText)

Ok(value) == [ok |-> TRUE, value |-> value, error |-> ""]
Threw(error) == [ok |-> FALSE, value |-> <<>>, error |-> error]

decryptString(encrypted, available) ==
    IF available /\ startsWith(encrypted, CipherHeader)
    THEN Ok(Reverse(SubSeq(encrypted, Len(CipherHeader) + 1, Len(encrypted))))
    ELSE Threw("Error while decrypting the ciphertext")

\* Buffer.toString("base64") and Buffer.from(s, "base64"), as a letter for
\* letter code: bytes become letters of the base64 alphabet, decoding skips
\* the characters that are not in the alphabet
Base64Bytes == <<"s","k","-","1","2",":","E","N","C","v","0","x","A","B">>
Base64Text == <<"c","2","L","M","j","O","R","U","Q","d","w","e","B","h">>

IndexIn(c, table) ==
    IF \E i \in 1..Len(table) : table[i] = c
    THEN CHOOSE i \in 1..Len(table) : table[i] = c
    ELSE 0

Base64Encode ==
    [c \in {Base64Bytes[i] : i \in 1..Len(Base64Bytes)} |->
        Base64Text[IndexIn(c, Base64Bytes)]]
Base64Decode ==
    [c \in {Base64Text[i] : i \in 1..Len(Base64Text)} |->
        Base64Bytes[IndexIn(c, Base64Text)]]

toBase64(bytes) == [i \in 1..Len(bytes) |-> Base64Encode[bytes[i]]]
fromBase64(text) ==
    LET known == SelectSeq(text, LAMBDA c : c \in DOMAIN Base64Decode)
    IN  [i \in 1..Len(known) |-> Base64Decode[known[i]]]

\* /^[A-Za-z0-9+/]+=*$/.test(token) && token.length > 100
LegacyMinLength == 100
isBase64Char(c) ==
    \/ IndexIn(c, UpperCase) > 0
    \/ IndexIn(c, LowerCase) > 0
    \/ IndexIn(c, SubSeq(Digits, 1, 10)) > 0
    \/ c \in {"+", "/"}
isLegacyEncryptedToken(token) ==
    /\ Len(token) > LegacyMinLength
    /\ \E n \in 1..Len(token) :
          /\ \A i \in (n + 1)..Len(token) : token[i] = "="
          /\ \A i \in 1..n : isBase64Char(token[i])

encryptSensitiveData(provider, available) ==
    IF provider.authToken = <<>> THEN Ok(provider)
    ELSE IF startsWith(provider.authToken, ENCRYPTED_TOKEN_PREFIX) THEN Ok(provider)
    ELSE IF ~available
    THEN Threw("Token encryption not available - cannot securely store credentials")
    ELSE Ok([provider EXCEPT !.authToken =
                ENCRYPTED_TOKEN_PREFIX \o toBase64(encryptString(provider.authToken))])

\* a decryptSensitiveData that keeps the stored string when decryption fails
decryptSensitiveDataFallsBack(provider, available) ==
    LET token == provider.authToken
        plain == decryptString(fromBase64(token), available)
    IN  IF plain.ok THEN Ok([provider EXCEPT !.authToken = plain.value])
        ELSE Ok(provider)

decryptSensitiveData(provider, available) ==
    LET token == provider.authToken
    IN  IF token = <<>> THEN Ok(provider)
        ELSE IF startsWith(token, ENCRYPTED_TOKEN_PREFIX)
        THEN LET base64Data == SubSeq(token, Len(ENCRYPTED_TOKEN_PREFIX) + 1, Len(token))
                 plain == decryptString(fromBase64(base64Data), available)
             IN  IF plain.ok THEN Ok([provider EXCEPT !.authToken = plain.value])
                 ELSE Threw("Failed to decrypt token - data may be corrupted")
        ELSE IF isLegacyEncryptedToken(token)
        THEN LET plain == decryptString(fromBase64(token), available)
             IN  IF plain.ok THEN Ok([provider EXCEPT !.authToken = plain.value])
                 ELSE Ok(provider)
        ELSE Ok(provider)

(***************************************************************************)
(* The credential vault: the provider list and its file                    *)
(***************************************************************************)
\* a provider is [id, baseUrl, authToken, models]; name and defaultModel are
\* carried like baseUrl and are left out
List(items) == [kind |-> "list", items |-> items]
\* content that JSON.parse rejects: an overwrite that stopped part-way
Damaged == [kind |-> "damaged", items |-> <<>>]

readProvidersFile(file) == IF file.kind = "list" THEN file.items ELSE <<>>

\* list.map(op): the results when every call returns, else the first throw
MapAll(list, op(_)) ==
    LET res == [i \in 1..Len(list) |-> op(list[i])]
        bad == {i \in 1..Len(list) : ~res[i].ok}
    IN  IF bad = {} THEN Ok([i \in 1..Len(list) |-> res[i].value])
        ELSE Threw(res[CHOOSE i \in bad : \A j \in bad : i <= j].error)

loadProviders(file, available) ==
    MapAll(readProvidersFile(file), LAMBDA p : decryptSensitiveData(p, available))

\* findIndex(p => p.id === id): 0 stands for -1
findIndex(providers, id) ==
    IF \E i \in 1..Len(providers) : providers[i].id = id
    THEN CHOOSE i \in 1..Len(providers) :
            /\ providers[i].id = id
            /\ \A j \in 1..(i - 1) : providers[j].id # id
    ELSE 0

hasToken(provider) == provider.authToken # <<>> /\ Len(provider.authToken) > 0

\* a projection that carries the token along
toSafeProviderWithToken(provider) ==
    [id |-> provider.id, baseUrl |-> provider.baseUrl, models |-> provider.models,
     hasToken |-> hasToken(provider), isDefault |-> FALSE,
     authToken |-> provider.authToken]

\* the projection sent to the renderer: it has no authToken field
toSafeProvider(provider) ==
    [id |-> provider.id, baseUrl |-> provider.baseUrl, models |-> provider.models,
     hasToken |-> hasToken(provider), isDefault |-> FALSE]

\* the user's providers of loadProvidersSafe (the default templates that
\* follow them are constants of the program)
loadProvidersSafe(file) ==
    LET raw == readProvidersFile(file)
    IN  [i \in 1..Len(raw) |-> toSafeProvider(raw[i])]

\* models objects: undefined, or the entries of an object
NoModels == [defined |-> FALSE, entries |-> <<>>]
Models(entries) == [defined |-> TRUE, entries |-> entries]
Entry(key, value) == [key |-> key, value |-> value]

MAX_MODEL_NAME_LENGTH == 200

\* /^[a-zA-Z0-9._/-]+$/
MODEL_NAME_PATTERN(value) ==
    /\ value # <<>>
    /\ \A i \in 1..Len(value) :
          \/ isBase64Char(value[i]) /\ value[i] # "+"
          \/ value[i] \in {".", "_", "-"}

\* a validateModelConfig that checks the keys only
validateModelConfigKeysOnly(models) ==
    \/ ~models.defined
    \/ \A i \in 1..Len(models.entries) :
          models.entries[i].key \in {"opus", "sonnet", "haiku"}

validateModelConfig(models) ==
    \/ ~models.defined
    \/ \A i \in 1..Len(models.entries) :
          LET e == models.entries[i]
          IN  /\ e.key \in {"opus", "sonnet", "haiku"}
              /\ \/ e.value = <<>>
                 \/ /\ Len(e.value) <= MAX_MODEL_NAME_LENGTH
                    /\ MODEL_NAME_PATTERN(e.value)

\* a resolveAuthToken that takes the payload's token as it comes
resolveAuthTokenFromPayload(newToken, existingToken) == newToken

resolveAuthToken(newToken, existingToken) ==
    IF newToken # <<>> /\ Len(newToken) > 0 THEN newToken ELSE existingToken

\* crypto.randomUUID(): an id no provider of the list has
randomUUID(providers) ==
    CHOOSE id \in ProviderIds \cup {NoId} :
        /\ id = NoId \/ findIndex(providers, id) = 0
        /\ \A other \in ProviderIds :
              findIndex(providers, other) = 0 => (id # NoId /\ id <= other)

(***************************************************************************)
(* The credential vault: the operations                                    *)
(***************************************************************************)
\* the step of saveProvidersAtomic at which the file system fails: writing
\* or chmod of the temporary file, or the rename; after a failed rename the
\* direct overwrite can be refused at open, stop part-way, or be followed by
\* a failing chmod. A chmod of the temporary file that failed either works
\* when the catch block repeats it ("tempChmod") or fails again
\* ("tempChmodAgain")
FsFaults == {"none", "tempWrite", "tempChmod", "tempChmodAgain", "rename",
             "renameThenOpen", "renameThenWrite", "renameThenChmod"}

\* what saveProvidersAtomic leaves in providers.json, whether it throws, and
\* whether providers.json.tmp.<uuid> is still there: the catch block runs
\* chmodSync and then unlinkSync on it and ignores what they throw
saveProvidersAtomic(file, providers, fault) ==
    CASE fault \in {"none", "rename"} ->
            [file |-> List(providers), threw |-> FALSE, temp |-> FALSE]
      [] fault \in {"tempWrite", "tempChmod", "renameThenOpen"} ->
            [file |-> file, threw |-> TRUE, temp |-> FALSE]
      [] fault = "tempChmodAgain" -> [file |-> file, threw |-> TRUE, temp |-> TRUE]
      [] fault = "renameThenWrite" -> [file |-> Damaged, threw |-> TRUE, temp |-> FALSE]
      [] fault = "renameThenChmod" ->
            [file |-> List(providers), threw |-> TRUE, temp |-> FALSE]

\* what a call does up to the write: it throws, returns without writing, or
\* hands a list to saveProvidersAtomic and then returns ret
Throws(error, read) ==
    [threw |-> TRUE, error |-> error, read |-> read, writes |-> FALSE,
     content |-> <<>>, ret |-> <<>>]
Returns(ret) ==
    [threw |-> FALSE, error |-> "", read |-> TRUE, writes |-> FALSE,
     content |-> <<>>, ret |-> ret]
Writes(content, ret) ==
    [threw |-> FALSE, error |-> "", read |-> TRUE, writes |-> TRUE,
     content |-> content, ret |-> ret]

\* providers.map(encryptSensitiveData), then the write
EncryptAndSave(providers, available, ret) ==
    LET encryptedProviders ==
            MapAll(providers, LAMBDA p : encryptSensitiveData(p, available))
    IN  IF encryptedProviders.ok THEN Writes(encryptedProviders.value, ret)
        ELSE Throws(encryptedProviders.error, TRUE)

saveProviderFromPayload(payload, file, available, read) ==
    IF payload.baseUrl # NoUrl /\ ~validateProviderUrl(payload.baseUrl, read).valid
    THEN Throws("Invalid provider URL", FALSE)
    ELSE IF ~validateModelConfig(payload.models)
    THEN Throws("Invalid models configuration", FALSE)
    ELSE
      LET loaded == loadProviders(file, available)
          providers == loaded.value
          existingIndex == IF payload.id # NoId THEN findIndex(providers, payload.id) ELSE 0
          existingToken == IF existingIndex > 0 THEN providers[existingIndex].authToken
                           ELSE <<>>
          providerToSave ==
              [id |-> IF payload.id # NoId THEN payload.id ELSE randomUUID(providers),
               baseUrl |-> payload.baseUrl,
               authToken |-> resolveAuthToken(payload.authToken, existingToken),
               models |-> payload.models]
          merged == IF existingIndex > 0
                    THEN [providers EXCEPT ![existingIndex] = providerToSave]
                    ELSE Append(providers, providerToSave)
      IN  IF ~loaded.ok THEN Throws(loaded.error, TRUE)
          ELSE EncryptAndSave(merged, available, toSafeProvider(providerToSave))

\* the list saveProvider merges into: the providers decrypted before the
\* first one whose decryption throws (the throw is caught and ignored)
RECURSIVE DecryptedPrefix(_, _)
DecryptedPrefix(list, available) ==
    IF list = <<>> THEN <<>>
    ELSE LET d == decryptSensitiveData(Head(list), available)
         IN  IF d.ok THEN <<d.value>> \o DecryptedPrefix(Tail(list), available)
             ELSE <<>>

saveProvider(provider, file, available) ==
    LET providers == DecryptedPrefix(readProvidersFile(file), available)
        existingIndex == findIndex(providers, provider.id)
        providerToSave ==
            IF existingIndex > 0 THEN provider
            ELSE [provider EXCEPT !.id = IF provider.id # NoId THEN provider.id
                                         ELSE randomUUID(providers)]
        merged == IF existingIndex > 0
                  THEN [providers EXCEPT ![existingIndex] = providerToSave]
                  ELSE Append(providers, providerToSave)
    IN  EncryptAndSave(merged, available, providerToSave)

deleteProvider(providerId, file, available) ==
    LET loaded == loadProviders(file, available)
        filtered == SelectSeq(loaded.value, LAMBDA p : p.id # providerId)
    IN  IF ~loaded.ok THEN Throws(loaded.error, TRUE)
        ELSE IF Len(filtered) = Len(loaded.value) THEN Returns(FALSE)
        ELSE EncryptAndSave(filtered, available, TRUE)

\* getProvider and, from it, the environment of the engine's subprocess
\* (token handling "env-var"); null is NoEnv
NoEnv == [isNull |-> TRUE, ANTHROPIC_AUTH_TOKEN |-> <<>>]
getProviderEnvById(providerId, file, available) ==
    LET loaded == loadProviders(file, available)
        index == findIndex(loaded.value, providerId)
    IN  IF ~loaded.ok THEN Throws(loaded.error, TRUE)
        ELSE IF index = 0 THEN Returns(NoEnv)
        ELSE Returns([isNull |-> FALSE,
                      ANTHROPIC_AUTH_TOKEN |-> loaded.value[index].authToken])

(***************************************************************************)
(* The credential vault: calls                                             *)
(***************************************************************************)
LocalUrl == [scheme |-> Str_http, host |-> [kind |-> "name", text |-> Str_localhost]]
PublicUrl == [scheme |-> Str_https,
              host |-> [kind |-> "name", text |-> <<"a","p","i",".","x",".","i","o">>]]

ValidModels == Models(<<Entry("opus", <<"g","p","t","-","4">>)>>)
UnknownKeyModels == Models(<<Entry("invalid", <<"t","e","s","t">>)>>)
BadNameModels == Models(<<Entry("sonnet", <<"a"," ","b">>)>>)
LongNameModels == Models(<<Entry("haiku", [i \in 1..(MAX_MODEL_NAME_LENGTH + 1) |-> "a"])>>)

\* the payloads the renderer sends: new and existing ids with and without
\* a token, a local URL, and models objects
Payloads ==
    [id : ProviderIds \cup {NoId}, baseUrl : {PublicUrl},
     authToken : {<<>>, Secret1, PrefixedSecret}, models : {NoModels}]
    \cup [id : {1}, baseUrl : {LocalUrl}, authToken : {Secret1}, models : {NoModels}]
    \cup [id : {1}, baseUrl : {PublicUrl}, authToken : {<<>>},
          models : {ValidModels, UnknownKeyModels, BadNameModels, LongNameModels}]

\* the providers saveProvider is called with
Providers ==
    [id : ProviderIds, baseUrl : {PublicUrl}, authToken : {<<>>, Secret2},
     models : {NoModels}]

Stored(id, token) ==
    [id |-> id, baseUrl |-> PublicUrl, authToken |-> token, models |-> NoModels]

\* a versioned token whose payload the key store did not produce
CorruptToken == ENCRYPTED_TOKEN_PREFIX \o <<"c","2">>

\* providers.json at startup: absent, holding a corrupted token, or left by an earlier version with a
\* plaintext token, a legacy ciphertext without prefix, or a long plaintext
InitialFiles ==
    {Missing,
     List(<<Stored(1, Secret1)>>),
     List(<<Stored(1, toBase64(encryptString(LongSecret))), Stored(2, LongPlain)>>),
     List(<<Stored(2, CorruptToken)>>)}

\* one call of the vault: the list, if any, goes through saveProvidersAtomic
VaultCall(op, arg, plan, fault) ==
    LET w == saveProvidersAtomic(providersFile, plan.content, fault)
        threw == plan.threw \/ (plan.writes /\ w.threw)
    IN  /\ plan.writes \/ fault = "none"
        /\ \A i \in 1..Len(plan.content) : plan.content[i].id # NoId
        /\ providersFile' = IF plan.writes THEN w.file ELSE providersFile
        /\ vaultOp' = [op |-> op, arg |-> arg, read |-> plan.read,
                       threw |-> threw,
                       error |-> IF plan.threw THEN plan.error
                                 ELSE IF threw THEN "write failed" ELSE "",
                       ret |-> IF threw THEN <<>> ELSE plan.ret,
                       temp |-> plan.writes /\ w.temp]
        /\ UNCHANGED encryptionAvailable
        /\ UNCHANGED nonVaultVars

SaveProviderFromPayload(payload) ==
    \E plan \in {saveProviderFromPayload(payload, providersFile, encryptionAvailable,
                                         allowLocalRead)} :
        \E fault \in FsFaults : VaultCall("saveProviderFromPayload", payload, plan, fault)

SaveProvider(provider) ==
    \E plan \in {saveProvider(provider, providersFile, encryptionAvailable)} :
        \E fault \in FsFaults : VaultCall("saveProvider", provider, plan, fault)

DeleteProvider(providerId) ==
    \E plan \in {deleteProvider(providerId, providersFile, encryptionAvailable)} :
        \E fault \in FsFaults : VaultCall("deleteProvider", providerId, plan, fault)

GetProviderEnvById(providerId) ==
    \E plan \in {getProviderEnvById(providerId, providersFile, encryptionAvailable)} :
        VaultCall("getProviderEnvById", providerId, plan, "none")

LoadProvidersSafe ==
    VaultCall("loadProvidersSafe", 0, Returns(loadProvidersSafe(providersFile)), "none")

\* the operating system's key store comes or goes
KeyStoreChange ==
    /\ encryptionAvailable' = ~encryptionAvailable
    /\ UNCHANGED <<providersFile, vaultOp>>
    /\ UNCHANGED nonVaultVars

VaultInit ==
    /\ LogIdle
    /\ RunIdle
    /\ BrowserIdle
    /\ GatewayIdle
    /\ allowLocalRead \in {"undefined", "true"}
    /\ env = allowLocalRead
    /\ envLocked = FALSE
    /\ url = NoUrl
    /\ verdict = NoVerdict
    /\ providersFile \in InitialFiles
    /\ encryptionAvailable \in BOOLEAN
    /\ vaultOp = NoVaultOp
    /\ LoopIdle
    /\ StoreIdle

VaultNext ==
    \/ \E payload \in Payloads : SaveProviderFromPayload(payload)
    \/ \E provider \in Providers : SaveProvider(provider)
    \/ \E providerId \in ProviderIds : DeleteProvider(providerId)
    \/ \E providerId \in ProviderIds : GetProviderEnvById(providerId)
    \/ LoadProvidersSafe
    \/ KeyStoreChange

VaultSpec == VaultInit /\ [][VaultNext]_vars

(***************************************************************************)
(* The credential vault: encrypting and decrypting one token               *)
(***************************************************************************)
MaxSecretLen == 3     \* characters of a secret after its opening

RECURSIVE StringsOver(_, _)
StringsOver(alphabet, n) ==
    IF n = 0 THEN {<<>>}
    ELSE LET shorter == StringsOver(alphabet, n - 1)
         IN  shorter \cup {Append(t, c) : t \in shorter, c \in alphabet}

\* secrets of every content: short keys, keys that open with the letters
\* of the storage prefix or with the whole prefix, and the long ones
CodecSecrets ==
    {opening \o rest :
        opening \in {<<>>, <<"E","N","C">>, ENCRYPTED_TOKEN_PREFIX},
        rest \in StringsOver({"s", "k", "x"}, MaxSecretLen) \ {<<>>}}
    \cup {LongSecret, LongPlain}

Token(authToken) ==
    [id |-> 1, baseUrl |-> PublicUrl, authToken |-> authToken, models |-> NoModels]

\* encryptSensitiveData on a provider that carries the secret
EncryptSecret(secret) ==
    /\ vaultOp.op # "encryptSensitiveData"
    /\ LET stored == encryptSensitiveData(Token(secret), encryptionAvailable)
       IN  vaultOp' = [op |-> "encryptSensitiveData", secret |-> secret,
                       threw |-> ~stored.ok,
                       ret |-> IF stored.ok THEN stored.value.authToken ELSE <<>>]
    /\ UNCHANGED <<providersFile, encryptionAvailable>>
    /\ UNCHANGED nonVaultVars

\* decryptSensitiveData on what encryptSensitiveData returned
DecryptStored ==
    /\ vaultOp.op = "encryptSensitiveData" /\ ~vaultOp.threw
    /\ LET read == decryptSensitiveData(Token(vaultOp.ret), encryptionAvailable)
       IN  vaultOp' = [op |-> "decryptSensitiveData", secret |-> vaultOp.secret,
                       threw |-> ~read.ok,
                       ret |-> IF read.ok THEN read.value.authToken ELSE <<>>]
    /\ UNCHANGED <<providersFile, encryptionAvailable>>
    /\ UNCHANGED nonVaultVars

CodecInit ==
    /\ LogIdle
    /\ RunIdle
    /\ BrowserIdle
    /\ GatewayIdle
    /\ UrlIdle
    /\ providersFile = Missing
    /\ encryptionAvailable \in BOOLEAN
    /\ vaultOp = NoVaultOp
    /\ LoopIdle
    /\ StoreIdle

CodecNext ==
    \/ \E secret \in CodecSecrets : EncryptSecret(secret)
    \/ DecryptStored

CodecSpec == CodecInit /\ [][CodecNext]_vars

(***************************************************************************)
(* The credential vault under concurrent events                            *)
(***************************************************************************)
MaxCalls == 3         \* vault calls triggered in a run

Call(op, arg) == [op |-> op, arg |-> arg]

\* the mutations the renderer's events and the main process trigger
Calls ==
    {Call("saveProviderFromPayload", payload) :
        payload \in [id : {1, 2}, baseUrl : {PublicUrl}, authToken : {Secret1, <<>>},
                     models : {NoModels}]}
    \cup {Call("saveProvider", Stored(1, Secret2)), Call("deleteProvider", 1)}

\* the read-decrypt-merge-encrypt part of a call, on the file as it is read
PlanOf(call, file) ==
    CASE call.op = "saveProviderFromPayload" ->
            saveProviderFromPayload(call.arg, file, TRUE, allowLocalRead)
      [] call.op = "saveProvider" -> saveProvider(call.arg, file, TRUE)
      [] call.op = "deleteProvider" -> deleteProvider(call.arg, file, TRUE)

\* a handler that yielded to the event loop between its read and its write
CanStartAnytime == TRUE

\* the functions are synchronous (readFileSync ... renameSync, no await):
\* the event loop starts no other handler before the running one returns
CanStart == inProgress = <<>>

\* an event that leads to a vault call arrives at the main process
Trigger(call) ==
    /\ Len(taskQueue) + Len(inProgress) + Len(applied) < MaxCalls
    /\ taskQueue' = Append(taskQueue, call)
    /\ UNCHANGED <<inProgress, applied>>
    /\ UNCHANGED <<gatewayVars, urlVars, vaultVars, storeVars, runVars,
                   browserVars, logVars>>

\* the event loop runs the next handler: the call reads and decrypts the
\* list, merges, and encrypts
Begin ==
    /\ taskQueue # <<>>
    /\ CanStart
    /\ inProgress' = Append(inProgress,
                            [call |-> Head(taskQueue),
                             plan |-> PlanOf(Head(taskQueue), providersFile)])
    /\ taskQueue' = Tail(taskQueue)
    /\ UNCHANGED applied
    /\ UNCHANGED <<gatewayVars, urlVars, vaultVars, storeVars, runVars,
                   browserVars, logVars>>

\* the call writes its list, if it has one, and returns or throws
Finish(k) ==
    /\ k \in 1..Len(inProgress)
    /\ providersFile' =
          IF inProgress[k].plan.writes
          THEN saveProvidersAtomic(providersFile, inProgress[k].plan.content, "none").file
          ELSE providersFile
    /\ inProgress' = SubSeq(inProgress, 1, k - 1)
                     \o SubSeq(inProgress, k + 1, Len(inProgress))
    /\ applied' = Append(applied, inProgress[k].call)
    /\ UNCHANGED taskQueue
    /\ UNCHANGED <<gatewayVars, urlVars, encryptionAvailable, vaultOp, storeVars,
                   runVars, browserVars, logVars>>

LoopInit ==
    /\ LogIdle
    /\ RunIdle
    /\ BrowserIdle
    /\ GatewayIdle
    /\ UrlIdle
    /\ VaultIdle
    /\ StoreIdle

LoopNext ==
    \/ \E call \in Calls : Trigger(call)
    \/ Begin
    \/ \E k \in 1..MaxCalls : Finish(k)

LoopSpec == LoopInit /\ [][LoopNext]_vars

(***************************************************************************)
(* Properties of the permission gateway                                    *)
(***************************************************************************)
Settled(id) == promise[id].state = "fulfilled"
Waiting(id) == promise[id].state = "pending"
Parked == DOMAIN pendingPermissions

\* this step is an invocation of canUseTool
IsCall == Idle /\ ~Idle'

\* resolve() is invoked in this step on the promise of id
Attempt(id) == resolveCalls'[id] > resolveCalls[id]

\* the names on session.allowedTools as a reader of the string lists them;
\* Unrestricted: the session has no allow-list
Unrestricted == sessionAllowedTools \in {Undefined, <<" ", " ">>}
ListedNames ==
    IF sessionAllowedTools = Read THEN {Read}
    ELSE IF sessionAllowedTools = <<",">> THEN {}
    ELSE IF Unrestricted THEN {}
    ELSE {<<"b","a","s","h">>, <<"R","E","A","D">>}
OnAllowList(toolName) ==
    \E name \in ListedNames : toLowerCase(name) = toLowerCase(toolName)

\* C1: a parked request gets at most one result. Once its promise is
\* settled the value never changes, and a step in which resolve() is only
\* invoked on settled promises leaves session.pendingPermissions unchanged.
C1_FirstResolutionWins ==
    [][ /\ \A id \in Ids : Settled(id) => promise'[id] = promise[id]
        /\ ( /\ \E id \in Ids : Attempt(id)
             /\ \A id \in Ids : Attempt(id) => Settled(id) )
           => pendingPermissions' = pendingPermissions ]_vars

\* a request the UI allowed, on which a later resolution (the abort) was tried
C1_Witness ==
    \E id \in Ids :
        /\ resolveCalls[id] >= 2
        /\ promise[id] = Fulfilled(Allow("answers"))
        /\ aborted

\* C2: every parked request is eventually resolved (the caller never hangs),
\* whatever the configuration.
C2_NeverHangs == \A id \in Ids : Waiting(id) ~> Settled(id)

\* C3: an entry never leaves session.pendingPermissions without its promise
\* being resolved in the same step.
C3_NoLeakedWaiter ==
    [][ \A id \in Ids :
          (id \in Parked /\ id \notin DOMAIN pendingPermissions')
              => promise'[id].state = "fulfilled" ]_vars

\* C4: once the engine has stopped, session.pendingPermissions is empty from
\* permissionTimeoutMs + cleanupIntervalMs after the stop at the latest and,
\* once empty, stays empty; and no entry outlives its creation by more than
\* staleThresholdMs + cleanupIntervalMs (the background sweep reclaims it).
C4_MapEmptiesAfterEnd ==
    /\ [](( /\ engine = "stopped"
            /\ now >= endTime + fullConfig.permissionTimeoutMs
                              + fullConfig.cleanupIntervalMs )
            => Parked = {})
    /\ [][ (engine = "stopped" /\ Parked = {})
              => DOMAIN pendingPermissions' = {} ]_vars
    /\ [](\A id \in Parked :
            now <= pendingPermissions[id].createdAt
                     + fullConfig.staleThresholdMs + fullConfig.cleanupIntervalMs)

\* the engine stopped at time 0 with a request parked, the UI never answered,
\* the request timed out, and the bound has passed with the map empty
C4_Witness ==
    /\ engine = "stopped"
    /\ endTime = 0
    /\ ~aborted
    /\ \E id \in Ids : promise[id] = Fulfilled(Deny(MsgTimeout))
    /\ now >= endTime + fullConfig.permissionTimeoutMs + fullConfig.cleanupIntervalMs
    /\ Parked = {}

\* C5: once the signal is aborted no request is left waiting or parked, also
\* a request registered when the signal was already aborted.
C5_AbortObserved ==
    aborted => \A id \in Ids : ~Waiting(id) /\ id \notin Parked

\* C6: a call for a tool that is not on the allow-list (AskUserQuestion
\* excepted), in either mode, returns the policy deny, adds no entry and
\* sends no permission.request.
C6_NotAllowedDenied ==
    [][ ( /\ IsCall
          /\ lastCall'.toolName # AskUserQuestion
          /\ ~Unrestricted
          /\ ~OnAllowList(lastCall'.toolName) )
        => /\ lastCall'.result = Deny(MsgPolicy)
           /\ pendingPermissions' = pendingPermissions
           /\ timers' = timers
           /\ promise' = promise
           /\ sent' = sent ]_vars

\* a policy deny in free mode while another request is parked
C6_Witness ==
    /\ lastCall.outcome = "deny_policy"
    /\ permissionMode = "free"
    /\ Parked # {}

\* the calls that reach the capacity check: AskUserQuestion, and in secure
\* mode the tools the allow-list admits
ReachesCapacityCheck(toolName) ==
    \/ toolName = AskUserQuestion
    \/ permissionMode = "secure" /\ (Unrestricted \/ OnAllowList(toolName))

\* C7: at or above the cap, canUseTool first drops the entries older than
\* staleThresholdMs; if the size is still at or above the cap it returns the
\* capacity deny, registering and sending nothing; otherwise it registers.
C7_CapacityDeny ==
    [][ (IsCall /\ ReachesCapacityCheck(lastCall'.toolName)) =>
        LET cap == fullConfig.maxPendingPermissions
            old == {id \in Parked :
                      now - pendingPermissions[id].createdAt
                          > fullConfig.staleThresholdMs}
            kept == IF Cardinality(Parked) >= cap THEN Parked \ old ELSE Parked
        IN  IF Cardinality(kept) >= cap
            THEN /\ lastCall'.result = Deny(MsgCapacity)
                 /\ DOMAIN pendingPermissions' = kept
                 /\ sent' = sent
            ELSE /\ lastCall'.outcome = "parked"
                 /\ lastCall'.id \notin Parked
                 /\ DOMAIN pendingPermissions' = kept \cup {lastCall'.id}
                 /\ sent' = sent \cup {lastCall'.id} ]_vars

\* the third request on a cap of 2, with two requests parked, is denied
C7_Witness ==
    /\ lastCall.outcome = "deny_capacity"
    /\ fullConfig.maxPendingPermissions = 2
    /\ Cardinality(Parked) = 2

\* C8 as claimed: AskUserQuestion is approved at once, nothing is registered
\* and nothing is sent.
C8_AskApprovedAtOnce ==
    [][ (IsCall /\ lastCall'.toolName = AskUserQuestion)
        => /\ lastCall'.result.behavior = "allow"
           /\ pendingPermissions' = pendingPermissions
           /\ sent' = sent ]_vars

\* C8 amended: AskUserQuestion is never denied on allow-list grounds and is
\* never approved without the UI: in both modes and whatever the allow-list
\* is, the call is denied for capacity or is parked (entry registered,
\* permission.request sent, promise pending).
C8_AskAlwaysAsksUser ==
    [][ (IsCall /\ lastCall'.toolName = AskUserQuestion)
        => \/ lastCall'.result = Deny(MsgCapacity)
           \/ /\ lastCall'.outcome = "parked"
              /\ lastCall'.id \in DOMAIN pendingPermissions' \ Parked
              /\ pendingPermissions'[lastCall'.id].toolName = AskUserQuestion
              /\ lastCall'.id \in sent' \ sent
              /\ promise'[lastCall'.id] = Pending ]_vars

\* AskUserQuestion parked in free mode although the allow-list omits it
C8_Witness ==
    /\ lastCall.outcome = "parked"
    /\ lastCall.toolName = AskUserQuestion
    /\ permissionMode = "free"
    /\ sessionAllowedTools = Read

\* C9 as claimed: in free mode every tool on the allow-list, and every tool
\* when there is no allow-list, is allowed at once with its input unchanged,
\* with no entry and no permission.request.
C9_FreeModeAllowsAll ==
    [][ ( /\ IsCall
          /\ permissionMode = "free"
          /\ (Unrestricted \/ OnAllowList(lastCall'.toolName)) )
        => /\ lastCall'.result = Allow(lastCall'.input)
           /\ pendingPermissions' = pendingPermissions
           /\ sent' = sent ]_vars

\* C9 amended: the same for every tool other than AskUserQuestion.
C9_FreeModeAllowsOthers ==
    [][ ( /\ IsCall
          /\ permissionMode = "free"
          /\ lastCall'.toolName # AskUserQuestion
          /\ (Unrestricted \/ OnAllowList(lastCall'.toolName)) )
        => /\ lastCall'.result = Allow(lastCall'.input)
           /\ pendingPermissions' = pendingPermissions
           /\ timers' = timers
           /\ promise' = promise
           /\ sent' = sent ]_vars

\* a listed tool allowed in free mode while a request is parked
C9_Witness ==
    /\ lastCall.outcome = "allow"
    /\ lastCall.result = Allow("file_path")
    /\ permissionMode = "free"
    /\ ~Unrestricted
    /\ Parked # {}

(***************************************************************************)
(* Properties of validateProviderUrl                                       *)
(***************************************************************************)
\* the deny-list on the address itself: localhost, 127/8, 10/8, 172.16/12,
\* 192.168/16, 169.254/16, 0/8, ::1, fc00::/7, fe80::/10
DenyListed(host) ==
    CASE host.kind = "name" -> toLowerCase(host.text) = Str_localhost
      [] host.kind = "ipv4" ->
            \/ host.o[1] \in {127, 10, 0}
            \/ host.o[1] = 172 /\ host.o[2] \in 16..31
            \/ host.o[1] = 192 /\ host.o[2] = 168
            \/ host.o[1] = 169 /\ host.o[2] = 254
      [] host.kind = "ipv6" ->
            \/ host.first = 0 /\ host.last = 1
            \/ host.first \div 512 = 64512 \div 512
            \/ host.first \div 64 = 65152 \div 64
      [] OTHER -> FALSE

IsHttp(u) == toLowerCase(u.scheme) \in {Str_http, Str_https}

\* C10: with the override unset, an http(s) URL whose host is on the
\* deny-list, a URL of another scheme and an unparsable URL are all invalid.
C10_DenyListRejected ==
    (verdict # NoVerdict /\ ~ALLOW_LOCAL_PROVIDERS(allowLocalRead)) =>
        /\ (IsHttp(url) /\ DenyListed(url.host)) => ~verdict.valid
        /\ ~IsHttp(url) => ~verdict.valid
        /\ url.host = EmptyHost => ~verdict.valid

(***************************************************************************)
(* The session store: path admission                                       *)
(***************************************************************************)
MaxClock == 2         \* last tick of the session store's clock

\* the cache's time to live, in ticks (60 s unless the operator tunes it)
PATH_CACHE_TTL_MS == 1

\* the character "\0"
NullByte == "NUL"
\* the character U+0060
Backtick == "BACKTICK"

\* String.prototype.includes
includes(s, sub) ==
    \E i \in 1..(Len(s) - Len(sub) + 1) : SubSeq(s, i, i + Len(sub) - 1) = sub

\* /[;&|`$<>]/ without the dollar sign
dangerousShellCharsNoDollar == {";", "&", "|", Backtick, "<", ">"}

\* /[;&|`$<>]/
dangerousShellChars == {";", "&", "|", Backtick, "$", "<", ">"}

\* the pieces of a path between its separators
RECURSIVE segments(_, _)
segments(s, cur) ==
    IF s = <<>> THEN <<cur>>
    ELSE IF Head(s) = "/" THEN <<cur>> \o segments(Tail(s), <<>>)
    ELSE segments(Tail(s), Append(cur, Head(s)))

\* path.posix: drops empty and "." segments, folds ".." segments
RECURSIVE normalizeString(_, _, _)
normalizeString(segs, res, allowAboveRoot) ==
    IF segs = <<>> THEN res
    ELSE LET seg == Head(segs)
             rest == Tail(segs)
         IN  IF seg = <<>> \/ seg = <<".">>
                 THEN normalizeString(rest, res, allowAboveRoot)
             ELSE IF seg = <<".", ".">>
                 THEN IF res # <<>> /\ res[Len(res)] # <<".", ".">>
                          THEN normalizeString(rest, SubSeq(res, 1, Len(res) - 1),
                                               allowAboveRoot)
                      ELSE IF allowAboveRoot
                          THEN normalizeString(rest, Append(res, seg), allowAboveRoot)
                      ELSE normalizeString(rest, res, allowAboveRoot)
             ELSE normalizeString(rest, Append(res, seg), allowAboveRoot)

RECURSIVE joinSegments(_)
joinSegments(segs) ==
    IF segs = <<>> THEN <<>>
    ELSE IF Len(segs) = 1 THEN Head(segs)
    ELSE Head(segs) \o <<"/">> \o joinSegments(Tail(segs))

isAbsolute(path) == path # <<>> /\ Head(path) = "/"

\* path.normalize
normalize(path) ==
    IF path = <<>> THEN <<".">>
    ELSE LET trailingSeparator == path[Len(path)] = "/"
             body == joinSegments(normalizeString(segments(path, <<>>), <<>>,
                                                  ~isAbsolute(path)))
         IN  IF body = <<>>
                 THEN IF isAbsolute(path) THEN <<"/">>
                      ELSE IF trailingSeparator THEN <<".", "/">> ELSE <<".">>
             ELSE (IF isAbsolute(path) THEN <<"/">> ELSE <<>>)
                  \o body
                  \o (IF trailingSeparator THEN <<"/">> ELSE <<>>)

\* path.resolve of one argument
pathResolve(path, cwd) ==
    LET full == IF isAbsolute(path) THEN path ELSE cwd \o <<"/">> \o path
    IN  <<"/">> \o joinSegments(normalizeString(segments(full, <<>>), <<>>, FALSE))

\* fs.existsSync: true for a directory and for a regular file
existsSync(disk, path) == \E e \in disk : e.path = path

PathThrew(error, cache) ==
    [sanitized |-> TRUE, threw |-> TRUE, error |-> error, ret |-> Undefined,
     cache |-> cache]
PathReturned(resolved, cache) ==
    [sanitized |-> TRUE, threw |-> FALSE, error |-> "", ret |-> resolved,
     cache |-> cache]
\* the caller did not reach sanitizePath
NotSanitized(cache) ==
    [sanitized |-> FALSE, threw |-> FALSE, error |-> "", ret |-> Undefined,
     cache |-> cache]

CacheSet(cache, resolved, valid, t) ==
    {e \in cache : e.resolved # resolved}
        \cup {[resolved |-> resolved, valid |-> valid, timestamp |-> t]}

\* a lookup that answers from the cache whatever the age of the entry
sanitizePathStaleCache(inputPath, cache, disk, t, cwd) ==
    IF includes(inputPath, <<NullByte>>)
        THEN PathThrew("null bytes not allowed", cache)
    ELSE IF includes(inputPath, <<".", ".">>)
        THEN PathThrew("path traversal sequences not allowed", cache)
    ELSE IF \E i \in 1..Len(inputPath) : inputPath[i] \in dangerousShellChars
        THEN PathThrew("dangerous shell metacharacters not allowed", cache)
    ELSE LET resolved == pathResolve(normalize(inputPath), cwd)
             cached == {e \in cache : e.resolved = resolved}
         IN  IF includes(resolved, <<".", ".">>)
                 THEN PathThrew("path traversal detected after normalization", cache)
             ELSE IF cached # {}
                 THEN IF \E e \in cached : e.valid
                          THEN PathReturned(resolved, cache)
                      ELSE PathThrew("directory does not exist", cache)
             ELSE IF ~existsSync(disk, resolved)
                 THEN PathThrew("directory does not exist",
                                CacheSet(cache, resolved, FALSE, t))
             ELSE PathReturned(resolved, CacheSet(cache, resolved, TRUE, t))

sanitizePath(inputPath, cache, disk, t, cwd) ==
    IF includes(inputPath, <<NullByte>>)
        THEN PathThrew("null bytes not allowed", cache)
    ELSE IF includes(inputPath, <<".", ".">>)
        THEN PathThrew("path traversal sequences not allowed", cache)
    ELSE IF \E i \in 1..Len(inputPath) : inputPath[i] \in dangerousShellChars
        THEN PathThrew("dangerous shell metacharacters not allowed", cache)
    ELSE LET resolved == pathResolve(normalize(inputPath), cwd)
             cached == {e \in cache : e.resolved = resolved}
         IN  IF includes(resolved, <<".", ".">>)
                 THEN PathThrew("path traversal detected after normalization", cache)
             ELSE IF \E e \in cached : t - e.timestamp < PATH_CACHE_TTL_MS
                 THEN IF \E e \in cached : e.valid
                          THEN PathReturned(resolved, cache)
                      ELSE PathThrew("directory does not exist", cache)
             ELSE IF ~existsSync(disk, resolved)
                 THEN PathThrew("directory does not exist",
                                CacheSet(cache, resolved, FALSE, t))
             ELSE PathReturned(resolved, CacheSet(cache, resolved, TRUE, t))

\* what a call leaves in storeOp
StoreCall(op, id, cwd, r) ==
    [op |-> op, id |-> id, cwd |-> cwd, sanitized |-> r.sanitized, threw |-> r.threw,
     error |-> r.error, ret |-> r.ret]

\* the ids crypto.randomUUID() hands to createSession
SessionIds == {1, 2}

\* a column that holds SQL NULL
SqlNull == <<"null">>

\* SessionStatus
StatusIdle == <<"idle">>
StatusRunning == <<"running">>
StatusError == <<"error">>

\* the Session createSession builds (pendingPermissions and abortController
\* live in the gateway's variables)
NewSession(options, sanitizedCwd) ==
    [title |-> options.title, claudeSessionId |-> Undefined, status |-> StatusIdle,
     cwd |-> sanitizedCwd, allowedTools |-> options.allowedTools,
     lastPrompt |-> options.prompt, permissionMode |-> options.permissionMode]

\* value ?? null
orNull(value) == IF value = Undefined THEN SqlNull ELSE value

\* the row of `insert into sessions` (created_at and updated_at left out)
RowOf(session) ==
    [title |-> session.title,
     claude_session_id |-> orNull(session.claudeSessionId),
     status |-> session.status,
     cwd |-> orNull(session.cwd),
     allowed_tools |-> orNull(session.allowedTools),
     last_prompt |-> orNull(session.lastPrompt),
     permission_mode |-> orNull(session.permissionMode)]

\* fieldMappings of persistSession: Session key -> column
fieldMappings ==
    [claudeSessionId |-> "claude_session_id", status |-> "status", cwd |-> "cwd",
     allowedTools |-> "allowed_tools", lastPrompt |-> "last_prompt",
     permissionMode |-> "permission_mode"]

\* Object.assign(session, updates)
ObjectAssign(session, updates) ==
    [k \in DOMAIN session \cup DOMAIN updates |->
        IF k \in DOMAIN updates THEN updates[k] ELSE session[k]]

\* persistSession: UPDATE sessions SET <mapped keys of updates> WHERE id = ?
persistSession(table, id, updates) ==
    LET keys == DOMAIN updates \cap DOMAIN fieldMappings
    IN  IF keys = {} \/ id \notin DOMAIN table THEN table
        ELSE [table EXCEPT ![id] =
                [c \in DOMAIN @ |->
                    IF \E k \in keys : fieldMappings[k] = c
                    THEN orNull(updates[CHOOSE k \in keys : fieldMappings[k] = c])
                    ELSE @[c]]]

\* a function with one more (or one replaced) pair
Put(f, k, v) == [x \in DOMAIN f \cup {k} |-> IF x = k THEN v ELSE f[x]]
\* a function without the key
Without(f, k) == [x \in DOMAIN f \ {k} |-> f[x]]

\* options.cwd ? this.sanitizePath(options.cwd) : undefined; the new session
\* goes into the map and into the table
createSession(id, options, mem, table, cache, disk, t, cwd) ==
    LET r == IF options.cwd \in {Undefined, <<>>}
                 THEN NotSanitized(cache)
             ELSE sanitizePath(options.cwd, cache, disk, t, cwd)
        session == NewSession(options, r.ret)
    IN  IF r.threw
            THEN [r |-> r, sessions |-> mem, table |-> table]
        ELSE [r |-> r, sessions |-> Put(mem, id, session),
              table |-> Put(table, id, RowOf(session))]

\* Object.assign ahead of the path check: a rejected cwd leaves the other
\* updates in memory
updateSessionAssignsFirst(id, updates, mem, table, cache, disk, t, cwd) ==
    IF id \notin DOMAIN mem
        THEN [r |-> NotSanitized(cache), returns |-> "undefined", sessions |-> mem,
              table |-> table]
    ELSE LET r == IF "cwd" \in DOMAIN updates /\ updates.cwd # Undefined
                      THEN sanitizePath(updates.cwd, cache, disk, t, cwd)
                  ELSE NotSanitized(cache)
             checked == IF r.sanitized /\ ~r.threw
                            THEN [updates EXCEPT !.cwd = r.ret]
                        ELSE updates
             assigned == [mem EXCEPT ![id] = ObjectAssign(@, checked)]
         IN  IF r.threw
                 THEN [r |-> r, returns |-> "throws", sessions |-> assigned,
                       table |-> table]
             ELSE [r |-> r, returns |-> "session", sessions |-> assigned,
                   table |-> persistSession(table, id, checked)]

\* an unknown id returns undefined; updates.cwd is sanitized unless undefined
updateSession(id, updates, mem, table, cache, disk, t, cwd) ==
    IF id \notin DOMAIN mem
        THEN [r |-> NotSanitized(cache), returns |-> "undefined", sessions |-> mem,
              table |-> table]
    ELSE LET r == IF "cwd" \in DOMAIN updates /\ updates.cwd # Undefined
                      THEN sanitizePath(updates.cwd, cache, disk, t, cwd)
                  ELSE NotSanitized(cache)
             checked == IF r.sanitized /\ ~r.threw
                            THEN [updates EXCEPT !.cwd = r.ret]
                        ELSE updates
             assigned == [mem EXCEPT ![id] = ObjectAssign(@, checked)]
         IN  IF r.threw
                 THEN [r |-> r, returns |-> "throws", sessions |-> mem,
                       table |-> table]
             ELSE [r |-> r, returns |-> "session", sessions |-> assigned,
                   table |-> persistSession(table, id, checked)]

\* the options of a session without tools, prompt or mode
Options(cwd) ==
    [cwd |-> cwd, title |-> <<"t">>, allowedTools |-> Undefined, prompt |-> Undefined,
     permissionMode |-> Undefined]

CreateSession(id, options) ==
    /\ id \notin DOMAIN sessions
    /\ id \notin DOMAIN db.sessions
    /\ \E c \in {createSession(id, options, sessions, db.sessions,
                               pathValidationCache, fs, storeNow, processCwd)} :
          /\ pathValidationCache' = c.r.cache
          /\ sessions' = c.sessions
          /\ db' = [db EXCEPT !.sessions = c.table]
          /\ storeOp' = StoreCall("createSession", id, options.cwd, c.r)
    /\ UNCHANGED <<processCwd, fs, lastPresent, storeNow>>
    /\ UNCHANGED nonStoreVars

UpdateSession(id, updates) ==
    /\ \E c \in {updateSession(id, updates, sessions, db.sessions,
                               pathValidationCache, fs, storeNow, processCwd)} :
          /\ pathValidationCache' = c.r.cache
          /\ sessions' = c.sessions
          /\ db' = [db EXCEPT !.sessions = c.table]
          /\ storeOp' = [op |-> "updateSession", id |-> id,
                         cwd |-> IF "cwd" \in DOMAIN updates THEN updates.cwd
                                 ELSE Undefined,
                         sanitized |-> c.r.sanitized, threw |-> c.r.threw,
                         error |-> c.r.error, ret |-> c.r.ret,
                         returns |-> c.returns]
    /\ UNCHANGED <<processCwd, fs, lastPresent, storeNow>>
    /\ UNCHANGED nonStoreVars

\* the paths on the disk are there at time t; the others keep their time
PresentAt(disk, seen, t) ==
    [path \in DOMAIN seen \cup {e.path : e \in disk} |->
        IF existsSync(disk, path) THEN t ELSE seen[path]]

\* clearPathCache(): the map is emptied
ClearPathCache ==
    /\ pathValidationCache' = {}
    /\ storeOp' = StoreCall("clearPathCache", 0, Undefined, NotSanitized({}))
    /\ UNCHANGED <<processCwd, fs, lastPresent, storeNow, sessions, db>>
    /\ UNCHANGED nonStoreVars

\* the disk changes under the store: a directory or a file appears
MakeEntry(path, kind) ==
    /\ ~existsSync(fs, path)
    /\ fs' = fs \cup {[path |-> path, kind |-> kind]}
    /\ lastPresent' = PresentAt(fs', lastPresent, storeNow)
    /\ UNCHANGED <<processCwd, storeNow, pathValidationCache, sessions, db, storeOp>>
    /\ UNCHANGED nonStoreVars

\* ... or is removed
RemoveEntry(path) ==
    /\ existsSync(fs, path)
    /\ fs' = {e \in fs : e.path # path}
    /\ UNCHANGED <<processCwd, lastPresent, storeNow, pathValidationCache, sessions, db, storeOp>>
    /\ UNCHANGED nonStoreVars

StoreTick ==
    /\ storeNow < MaxClock
    /\ storeNow' = storeNow + 1
    /\ lastPresent' = PresentAt(fs, lastPresent, storeNow')
    /\ UNCHANGED <<processCwd, fs, pathValidationCache, sessions, db, storeOp>>
    /\ UNCHANGED nonStoreVars

\* "/d'" and the relative "s"" : names with a quote in them
QuotedDir == <<"/", "d", "'">>
QuotedRelative == <<"s", "\"">>

\* a working directory whose own name holds two dots
DottedCwd == <<"/", "a", ".", ".", "b">>
ProcessCwds == {RootCwd, DottedCwd}

PathInputs ==
    {QuotedDir, QuotedDir \o <<"/">>, QuotedRelative,
     <<".", "/">> \o QuotedRelative,
     QuotedDir \o <<NullByte>>,
     QuotedDir \o <<"/", ".", ".">> \o QuotedDir}
        \cup {QuotedDir \o <<c>> : c \in {";", "&", "|", Backtick, "$", "<", ">"}}

\* the paths of the disk that the inputs can name
FsPaths == {QuotedDir, processCwd \o <<"/">> \o QuotedRelative}

StoreInit ==
    /\ LogIdle
    /\ RunIdle
    /\ BrowserIdle
    /\ GatewayIdle
    /\ UrlIdle
    /\ VaultIdle
    /\ processCwd \in ProcessCwds
    /\ fs \in {{}, {[path |-> QuotedDir, kind |-> "directory"]}}
    /\ lastPresent = PresentAt(fs, <<>>, 0)
    /\ storeNow = 0
    /\ pathValidationCache = {}
    /\ sessions = <<>>
    /\ db = EmptyDb
    /\ storeOp = NoStoreOp

\* the session whose cwd the path inputs go to
PathSessionId == 1

StoreNext ==
    \/ \E cwd \in PathInputs \cup {Undefined} :
          CreateSession(PathSessionId, Options(cwd))
    \/ \E cwd \in PathInputs \cup {Undefined} :
          UpdateSession(PathSessionId, [cwd |-> cwd])
    \/ \E path \in FsPaths, kind \in {"directory", "file"} : MakeEntry(path, kind)
    \/ \E path \in FsPaths : RemoveEntry(path)
    \/ StoreTick
    \/ ClearPathCache

StoreSpec == StoreInit /\ [][StoreNext]_vars


(***************************************************************************)
(* The session store: sessions across restarts and runs                    *)
(***************************************************************************)
\* row.column ? String(row.column) : undefined
orUndefined(value) == IF value \in {SqlNull, <<>>} THEN Undefined ELSE value

\* the Session loadSessions builds from a row: the cwd is kept as stored
SessionOfRow(row) ==
    [title |-> row.title,
     claudeSessionId |-> orUndefined(row.claude_session_id),
     status |-> row.status,
     cwd |-> orUndefined(row.cwd),
     allowedTools |-> orUndefined(row.allowed_tools),
     lastPrompt |-> orUndefined(row.last_prompt),
     permissionMode |-> orUndefined(row.permission_mode)]

loadSessions(table) == [id \in DOMAIN table |-> SessionOfRow(table[id])]

\* true without a session or a cwd; otherwise the verdict of sanitizePath,
\* which on failure marks the in-memory session and clears its cwd
validateSessionPath(id, mem, table, cache, disk, t, cwd) ==
    IF id \notin DOMAIN mem \/ mem[id].cwd \in {Undefined, <<>>}
        THEN [r |-> [NotSanitized(cache) EXCEPT !.ret = TRUE],
              sessions |-> mem, table |-> table]
    ELSE LET r == sanitizePath(mem[id].cwd, cache, disk, t, cwd)
         IN  IF r.threw
                 THEN [r |-> [r EXCEPT !.threw = FALSE, !.ret = FALSE],
                       sessions |-> [mem EXCEPT ![id].status = StatusError,
                                                ![id].cwd = Undefined],
                       table |-> table]
             ELSE [r |-> [r EXCEPT !.ret = TRUE],
                   sessions |-> [mem EXCEPT ![id].cwd = r.ret],
                   table |-> table]

\* a delete that leaves the messages of the session behind
deleteSessionKeepsMessages(id, mem, database) ==
    [ret |-> id \in DOMAIN database.sessions \/ id \in DOMAIN mem,
     sessions |-> IF id \in DOMAIN mem THEN Without(mem, id) ELSE mem,
     db |-> [database EXCEPT !.sessions = Without(@, id)]]

\* removes the session from the map, its messages and then its row
deleteSession(id, mem, database) ==
    [ret |-> id \in DOMAIN database.sessions \/ id \in DOMAIN mem,
     sessions |-> IF id \in DOMAIN mem THEN Without(mem, id) ELSE mem,
     db |-> [sessions |-> Without(database.sessions, id),
             messages |-> SelectSeq(database.messages,
                                    LAMBDA m : m.session_id # id)]]

\* close() and new SessionStore(dbPath): initialize keeps the tables,
\* loadSessions fills a new map, the cache starts empty
Reopen ==
    /\ sessions' = loadSessions(db.sessions)
    /\ pathValidationCache' = {}
    /\ storeOp' = StoreCall("open", 0, Undefined, NotSanitized({}))
    /\ UNCHANGED <<processCwd, fs, lastPresent, storeNow, db>>
    /\ UNCHANGED nonStoreVars

ValidateSessionPath(id) ==
    /\ \E c \in {validateSessionPath(id, sessions, db.sessions,
                                     pathValidationCache, fs, storeNow,
                                     processCwd)} :
          /\ pathValidationCache' = c.r.cache
          /\ sessions' = c.sessions
          /\ db' = [db EXCEPT !.sessions = c.table]
          /\ storeOp' = StoreCall("validateSessionPath", id, Undefined, c.r)
    /\ UNCHANGED <<processCwd, fs, lastPresent, storeNow>>
    /\ UNCHANGED nonStoreVars

DeleteSession(id) ==
    /\ \E d \in {deleteSession(id, sessions, db)} :
          /\ sessions' = d.sessions
          /\ db' = d.db
          /\ storeOp' = StoreCall("deleteSession", id, Undefined,
                                  [NotSanitized({}) EXCEPT !.ret = d.ret])
    /\ UNCHANGED <<processCwd, fs, lastPresent, storeNow, pathValidationCache>>
    /\ UNCHANGED nonStoreVars


\* the session.start payload: createSession, two status updates, runClaude
SessionStart(id, payload) ==
    /\ id \notin DOMAIN sessions
    /\ id \notin DOMAIN db.sessions
    /\ \E c \in {createSession(id, payload, sessions, db.sessions,
                               pathValidationCache, fs, storeNow, processCwd)} :
          /\ pathValidationCache' = c.r.cache
          /\ IF c.r.threw
                 THEN /\ sessions' = c.sessions
                      /\ db' = [db EXCEPT !.sessions = c.table]
                      /\ storeOp' = StoreCall("createSession", id, payload.cwd, c.r)
             ELSE \E u \in {updateSession(id, [status |-> StatusRunning,
                                               lastPrompt |-> payload.prompt],
                                          c.sessions, c.table, c.r.cache, fs,
                                          storeNow, processCwd)} :
                      /\ sessions' = u.sessions
                      /\ db' = [db EXCEPT !.sessions = u.table]
                      /\ storeOp' = StoreCall("runClaude", id, u.sessions[id].cwd,
                                              c.r)
    /\ UNCHANGED <<processCwd, fs, lastPresent, storeNow>>
    /\ UNCHANGED nonStoreVars

\* session.continue: an unknown session or one without a resume id is
\* refused; otherwise the status is updated and the session goes to runClaude
SessionContinue(id, prompt) ==
    /\ IF id \notin DOMAIN sessions
           THEN /\ storeOp' = StoreCall("runner.error", id, Undefined,
                                        NotSanitized({}))
                /\ UNCHANGED <<sessions, db>>
       ELSE IF sessions[id].claudeSessionId = Undefined
           THEN /\ storeOp' = StoreCall("runner.error", id, Undefined,
                                        NotSanitized({}))
                /\ UNCHANGED <<sessions, db>>
       ELSE \E u \in {updateSession(id, [status |-> StatusRunning,
                                         lastPrompt |-> prompt],
                                    sessions, db.sessions, pathValidationCache,
                                    fs, storeNow, processCwd)} :
                /\ sessions' = u.sessions
                /\ db' = [db EXCEPT !.sessions = u.table]
                /\ storeOp' = StoreCall("runClaude", id, u.sessions[id].cwd, u.r)
    /\ UNCHANGED <<processCwd, fs, lastPresent, storeNow, pathValidationCache>>
    /\ UNCHANGED nonStoreVars

\* the engine's init message of a run: session.claudeSessionId is set and
\* onSessionUpdate passes it to updateSession
RunnerInit(id, sdkSessionId) ==
    /\ id \in DOMAIN sessions
    /\ sessions[id].status = StatusRunning
    /\ \E u \in {updateSession(id, [claudeSessionId |-> sdkSessionId],
                               [sessions EXCEPT ![id].claudeSessionId = sdkSessionId],
                               db.sessions, pathValidationCache, fs, storeNow,
                               processCwd)} :
          /\ sessions' = u.sessions
          /\ db' = [db EXCEPT !.sessions = u.table]
          /\ storeOp' = StoreCall("onSessionUpdate", id, Undefined, u.r)
    /\ UNCHANGED <<processCwd, fs, lastPresent, storeNow, pathValidationCache>>
    /\ UNCHANGED nonStoreVars

\* a directory that is gone when the store is opened
MissingDir == <<"/", "g">>

\* the session.start payloads
StartPayloads ==
    {[cwd |-> cwd, title |-> <<"t">>, allowedTools |-> Undefined, prompt |-> <<"p">>,
      permissionMode |-> Undefined] : cwd \in {Undefined, QuotedDir, MissingDir}}

\* a session saved by an earlier process, with a resume id
SavedRow(cwd) ==
    [title |-> <<"saved">>, claude_session_id |-> <<"sdk-0">>, status |-> StatusIdle,
     cwd |-> cwd, allowed_tools |-> SqlNull, last_prompt |-> <<"p">>,
     permission_mode |-> SqlNull]

SavedDbs ==
    {EmptyDb} \cup {[sessions |-> Put(<<>>, 1, SavedRow(cwd)), messages |-> <<>>] :
                        cwd \in {SqlNull, QuotedDir, MissingDir}}

\* what updateSession is given besides the handlers' updates
SessionUpdates ==
    {[status |-> StatusIdle], [title |-> <<"renamed">>], [cwd |-> QuotedDir],
     [lastPrompt |-> <<"q">>, cwd |-> <<"/", "d", ";">>]}

SessionInit ==
    /\ LogIdle
    /\ RunIdle
    /\ BrowserIdle
    /\ GatewayIdle
    /\ UrlIdle
    /\ VaultIdle
    /\ processCwd = RootCwd
    /\ fs \in {{}, {[path |-> QuotedDir, kind |-> "directory"]}}
    /\ lastPresent = PresentAt(fs, <<>>, 0)
    /\ storeNow = 0
    /\ pathValidationCache = {}
    /\ db \in SavedDbs
    /\ sessions = loadSessions(db.sessions)
    /\ storeOp = StoreCall("open", 0, Undefined, NotSanitized({}))

SessionNext ==
    \/ \E id \in SessionIds, payload \in StartPayloads : SessionStart(id, payload)
    \/ \E id \in SessionIds : SessionContinue(id, <<"p">>)
    \/ \E id \in SessionIds : RunnerInit(id, <<"sdk-1">>)
    \/ \E id \in SessionIds, updates \in SessionUpdates : UpdateSession(id, updates)
    \/ \E id \in SessionIds : ValidateSessionPath(id)
    \/ \E id \in SessionIds : DeleteSession(id)
    \/ Reopen
    \/ MakeEntry(QuotedDir, "directory")
    \/ RemoveEntry(QuotedDir)

SessionSpec == SessionInit /\ [][SessionNext]_vars

(***************************************************************************)
(* The session store: messages                                             *)
(***************************************************************************)
MaxMessages == 2      \* rows of the messages table

\* a StreamMessage: its uuid (or undefined) and the rest of it
Message(uuid, body) == [uuid |-> uuid, body |-> body]

\* JSON.stringify(message): a key whose value is undefined is left out
JSONstringify(message) ==
    IF message.uuid = Undefined THEN <<"{">> \o message.body \o <<"}">>
    ELSE <<"{">> \o message.uuid \o message.body \o <<"}">>

\* JSON.parse: the value, or a SyntaxError
JSONparse(text) ==
    IF Len(text) >= 2 /\ text[1] = "{" /\ text[Len(text)] = "}" /\ Len(text) <= 4
        THEN Ok([type |-> "object",
                 value |-> IF Len(text) = 4 THEN Message(<<text[2]>>, <<text[3]>>)
                           ELSE IF Len(text) = 3 THEN Message(Undefined, <<text[2]>>)
                           ELSE Message(Undefined, <<>>)])
    ELSE IF text = <<"[", "]">> THEN Ok([type |-> "object", value |-> [length |-> 0]])
    ELSE IF text = <<"null">> THEN Ok([type |-> "null", value |-> text])
    ELSE IF text = <<"0">> THEN Ok([type |-> "number", value |-> text])
    ELSE IF text = <<"\"", "s", "\"">> THEN Ok([type |-> "string", value |-> text])
    ELSE Threw("Failed to parse message data")

\* a value of the data column: SQLite keeps a text as text and a blob as blob
Text(text) == [type |-> "text", text |-> text]
Blob(text) == [type |-> "blob", text |-> text]

parseMessageRow(row) ==
    IF row.data.type = "text" /\ row.data.text = <<>>
        THEN Threw("Invalid message row: missing 'data' field")
    ELSE IF row.data.type # "text"
        THEN Threw("Invalid message row: 'data' field must be a string")
    ELSE LET data == JSONparse(row.data.text)
         IN  IF ~data.ok THEN data
             ELSE IF data.value.type = "null" \/ data.value.type # "object"
                 THEN Threw("Invalid message: parsed data is not an object")
             ELSE Ok(data.value.value)

\* a loop that gives up at the first row that fails to parse
RECURSIVE parseMessageRowsOrStop(_)
parseMessageRowsOrStop(rows) ==
    IF rows = <<>> THEN <<>>
    ELSE LET parsed == parseMessageRow(Head(rows))
         IN  IF ~parsed.ok THEN <<>>
             ELSE <<parsed.value>> \o parseMessageRowsOrStop(Tail(rows))

\* each row is parsed on its own; a row that throws is logged and skipped
RECURSIVE parseMessageRows(_)
parseMessageRows(rows) ==
    IF rows = <<>> THEN <<>>
    ELSE LET parsed == parseMessageRow(Head(rows))
         IN  (IF ~parsed.ok THEN <<>> ELSE <<parsed.value>>)
             \o parseMessageRows(Tail(rows))

\* crypto.randomUUID(): an id no row has
RandomId(n) == [i \in 1..(n + 1) |-> "r"]
randomMessageId(messages) ==
    RandomId(CHOOSE n \in 0..Len(messages) :
                /\ \A i \in 1..Len(messages) : messages[i].id # RandomId(n)
                /\ \A k \in 0..(n - 1) :
                      \E i \in 1..Len(messages) : messages[i].id = RandomId(k))

\* `insert or replace`: a row with the same id is overwritten
recordMessageReplaces(sessionId, message, database, t, foreignKeys) ==
    LET id == IF message.uuid \notin {Undefined, <<>>} THEN message.uuid
              ELSE randomMessageId(database.messages)
        row == [id |-> id, session_id |-> sessionId,
                data |-> Text(JSONstringify(message)), created_at |-> t]
    IN  IF \E i \in 1..Len(database.messages) : database.messages[i].id = id
            THEN [threw |-> FALSE,
                  db |-> [database EXCEPT !.messages =
                            SelectSeq(@, LAMBDA m : m.id # id) \o <<row>>]]
        ELSE IF foreignKeys /\ sessionId \notin DOMAIN database.sessions
            THEN [threw |-> TRUE, db |-> database]
        ELSE [threw |-> FALSE,
              db |-> [database EXCEPT !.messages = Append(@, row)]]

\* `insert or ignore` under the message's uuid, or a random id without one;
\* with foreign keys enforced a row for an unknown session is refused
recordMessage(sessionId, message, database, t, foreignKeys) ==
    LET id == IF message.uuid \notin {Undefined, <<>>} THEN message.uuid
              ELSE randomMessageId(database.messages)
        row == [id |-> id, session_id |-> sessionId,
                data |-> Text(JSONstringify(message)), created_at |-> t]
    IN  IF \E i \in 1..Len(database.messages) : database.messages[i].id = id
            THEN [threw |-> FALSE, db |-> database]
        ELSE IF foreignKeys /\ sessionId \notin DOMAIN database.sessions
            THEN [threw |-> TRUE, db |-> database]
        ELSE [threw |-> FALSE,
              db |-> [database EXCEPT !.messages = Append(@, row)]]

\* the rows of a session in rowid order
RowsOf(messages, id) == SelectSeq(messages, LAMBDA m : m.session_id = id)

\* `order by created_at asc`: every order of the rows that the sort key
\* admits; rows with equal keys come in an order SQL does not fix
OrderedByCreatedAt(rows) ==
    {[i \in 1..Len(rows) |-> rows[perm[i]]] :
        perm \in {p \in [1..Len(rows) -> 1..Len(rows)] :
                    /\ \A i, j \in 1..Len(rows) : i # j => p[i] # p[j]
                    /\ \A i, j \in 1..Len(rows) :
                          i < j => rows[p[i]].created_at <= rows[p[j]].created_at}}

RecordMessage(sessionId, message, foreignKeys) ==
    /\ Len(db.messages) < MaxMessages
    /\ \E c \in {recordMessage(sessionId, message, db, storeNow, foreignKeys)} :
          /\ db' = c.db
          /\ storeOp' = [op |-> "recordMessage", id |-> sessionId,
                         message |-> message, threw |-> c.threw]
    /\ UNCHANGED <<processCwd, fs, lastPresent, storeNow, pathValidationCache, sessions>>
    /\ UNCHANGED nonStoreVars

\* null without a session row; otherwise the session and its parsed messages
GetSessionHistory(id) ==
    /\ IF id \notin DOMAIN db.sessions
           THEN storeOp' = [op |-> "getSessionHistory", id |-> id, null |-> TRUE,
                            rows |-> <<>>, messages |-> <<>>]
       ELSE \E rows \in OrderedByCreatedAt(RowsOf(db.messages, id)) :
               storeOp' = [op |-> "getSessionHistory", id |-> id, null |-> FALSE,
                           rows |-> rows, messages |-> parseMessageRows(rows)]
    /\ UNCHANGED <<processCwd, fs, lastPresent, storeNow, pathValidationCache, sessions, db>>
    /\ UNCHANGED nonStoreVars

\* Date.now() is the wall clock: a correction of the system time sets it back
ClockSetBack ==
    /\ storeNow > 0
    /\ storeNow' = storeNow - 1
    /\ UNCHANGED <<processCwd, fs, lastPresent, pathValidationCache, sessions, db, storeOp>>
    /\ UNCHANGED nonStoreVars

\* the messages the runs record
RecordedMessages ==
    {Message(<<"u1">>, <<"a">>), Message(<<"u1">>, <<"b">>),
     Message(Undefined, <<"a">>)}

\* data that did not come from recordMessage
MalformedData ==
    {Text(<<>>), Text(<<"{", "a">>), Text(<<"null">>), Text(<<"0">>),
     Text(<<"\"", "s", "\"">>), Blob(<<"{", "a", "}">>)}

StoredRow(id, sessionId, data) ==
    [id |-> id, session_id |-> sessionId, data |-> data, created_at |-> 0]

\* tables found at start: empty, or a damaged row between two sound ones
StoredMessages ==
    {<<>>}
    \cup {<<StoredRow(<<"m1">>, 1, Text(<<"{", "m1", "a", "}">>)),
            StoredRow(<<"m2">>, 1, data),
            StoredRow(<<"m3">>, 1, Text(<<"[", "]">>))>> : data \in MalformedData}

MessageInit ==
    /\ LogIdle
    /\ RunIdle
    /\ BrowserIdle
    /\ GatewayIdle
    /\ UrlIdle
    /\ VaultIdle
    /\ processCwd = RootCwd
    /\ fs = {}
    /\ lastPresent = <<>>
    /\ storeNow = 0
    /\ pathValidationCache = {}
    /\ \E messages \in StoredMessages :
          db = [sessions |-> [id \in SessionIds |-> RowOf(NewSession(Options(Undefined),
                                                                  Undefined))],
                messages |-> messages]
    /\ sessions = loadSessions(db.sessions)
    /\ storeOp = StoreCall("open", 0, Undefined, NotSanitized({}))

MessageNext ==
    \/ \E id \in SessionIds, message \in RecordedMessages, foreignKeys \in BOOLEAN :
          RecordMessage(id, message, foreignKeys)
    \/ \E id \in SessionIds : GetSessionHistory(id)
    \/ \E id \in SessionIds : DeleteSession(id)
    \/ StoreTick
    \/ ClockSetBack

MessageSpec == MessageInit /\ [][MessageNext]_vars

(***************************************************************************)
(* Properties of the local-override flag                                    *)
(***************************************************************************)
\* the variable now stands for the other decision than the one at startup
EnvFlipped ==
    ALLOW_LOCAL_PROVIDERS(env) # ALLOW_LOCAL_PROVIDERS(allowLocalRead)

\* C18: the local-override decision is fixed at module load: a call of
\* validateProviderUrl on the URL of the previous call returns the verdict
\* of the previous call, whatever was written to
\* CLAUDE_COWORK_ALLOW_LOCAL_PROVIDERS in between, and the value read at
\* module load never changes
C18_VerdictFixedAtLoad ==
    [][/\ allowLocalRead' = allowLocalRead
       /\ (verdict # NoVerdict /\ verdict' # NoVerdict /\ url' = url)
            => verdict' = verdict]_vars

\* localhost was validated after the variable was switched to the other
\* decision
C18_Witness ==
    /\ verdict # NoVerdict
    /\ EnvFlipped
    /\ IsHttp(url)
    /\ url.host = [kind |-> "name", text |-> Str_localhost]

(***************************************************************************)
(* Properties of the credential vault                                      *)
(***************************************************************************)
\* the step is a call of the vault operation op (its argument is
\* vaultOp'.arg)
IsVaultCall(op) ==
    /\ vaultOp'.op = op
    /\ encryptionAvailable' = encryptionAvailable

FlagAtStart == allowLocalRead \in {"true", "1"}

HoldsProvider(file, id, baseUrl) ==
    /\ file.kind = "list"
    /\ \E i \in 1..Len(file.items) :
          file.items[i].id = id /\ file.items[i].baseUrl = baseUrl

\* C11: saveProviderFromPayload with the localhost URL and no override
\* flag, or with a models object that has an unknown key, a malformed name
\* or an overlong name, throws the matching validation error without
\* reading or writing providers.json; with the flag set at process start
\* the localhost URL passes validation and, when the call returns, the file
\* holds the provider with that URL
C11_InvalidPayloadRejected ==
    [][IsVaultCall("saveProviderFromPayload") =>
        LET payload == vaultOp'.arg
        IN  /\ (payload.baseUrl = LocalUrl /\ ~FlagAtStart) =>
                  /\ vaultOp'.threw /\ vaultOp'.error = "Invalid provider URL"
                  /\ ~vaultOp'.read
                  /\ providersFile' = providersFile
            /\ payload.models \in {UnknownKeyModels, BadNameModels, LongNameModels} =>
                  /\ vaultOp'.threw /\ vaultOp'.error = "Invalid models configuration"
                  /\ ~vaultOp'.read
                  /\ providersFile' = providersFile
            /\ (payload.baseUrl = LocalUrl /\ FlagAtStart) =>
                  /\ vaultOp'.error # "Invalid provider URL"
                  /\ ~vaultOp'.threw => HoldsProvider(providersFile', payload.id, LocalUrl)
      ]_vars

\* a save of the localhost URL was refused while the file held a provider
C11_Witness ==
    /\ vaultOp.op = "saveProviderFromPayload"
    /\ vaultOp.arg.baseUrl = LocalUrl
    /\ vaultOp.threw /\ vaultOp.error = "Invalid provider URL"
    /\ providersFile.kind = "list" /\ providersFile.items # <<>>

\* C12: with platform encryption available, what decryptSensitiveData
\* returns for the stored form of a non-empty secret is that secret
C12_RoundTrip ==
    (vaultOp.op = "decryptSensitiveData" /\ encryptionAvailable) =>
        (~vaultOp.threw /\ vaultOp.ret = vaultOp.secret)

\* the stored token is the prefix followed by base64 text of a ciphertext
IsCiphertextToken(token) ==
    /\ startsWith(token, ENCRYPTED_TOKEN_PREFIX)
    /\ decryptString(fromBase64(SubSeq(token, Len(ENCRYPTED_TOKEN_PREFIX) + 1,
                                        Len(token))), TRUE).ok

\* the step is a save or a delete that rewrote the list and returned
Rewrote ==
    /\ encryptionAvailable' = encryptionAvailable
    /\ ~vaultOp'.threw
    /\ \/ vaultOp'.op \in {"saveProvider", "saveProviderFromPayload"}
       \/ vaultOp'.op = "deleteProvider" /\ vaultOp'.ret = TRUE

\* C13: after a save or delete that rewrote providers.json every non-empty
\* stored authToken is "ENC:v1:" followed by a ciphertext, never a secret as
\* the user typed it; and while platform encryption is unavailable a save
\* that carries a non-empty token throws and leaves the file unchanged
C13_NoSecretVerbatim ==
    [][/\ Rewrote =>
            \A i \in 1..Len(providersFile'.items) :
                \/ providersFile'.items[i].authToken = <<>>
                \/ IsCiphertextToken(providersFile'.items[i].authToken)
       /\ (/\ IsVaultCall("saveProvider") \/ IsVaultCall("saveProviderFromPayload")
           /\ ~encryptionAvailable
           /\ vaultOp'.arg.authToken # <<>>) =>
            (vaultOp'.threw /\ providersFile' = providersFile)
      ]_vars

\* a versioned token that safeStorage cannot decrypt now
Undecryptable(token, available) ==
    /\ startsWith(token, ENCRYPTED_TOKEN_PREFIX)
    /\ ~decryptString(fromBase64(SubSeq(token, Len(ENCRYPTED_TOKEN_PREFIX) + 1,
                                         Len(token))), available).ok

\* C14: while providers.json holds an ENC:v1: token that cannot be
\* decrypted, loadProviders throws and getProviderEnvById (through
\* getProvider) throws the decryption error; and whenever getProviderEnvById
\* returns the environment of a provider stored with a versioned token,
\* ANTHROPIC_AUTH_TOKEN is neither empty nor the stored string
C14_CorruptTokenFails ==
    [][IsVaultCall("getProviderEnvById") =>
        LET items == readProvidersFile(providersFile)
        IN  /\ (\E i \in 1..Len(items) :
                    Undecryptable(items[i].authToken, encryptionAvailable)) =>
                  /\ ~loadProviders(providersFile, encryptionAvailable).ok
                  /\ vaultOp'.threw
                  /\ vaultOp'.error = "Failed to decrypt token - data may be corrupted"
            /\ ~vaultOp'.threw =>
                  \A i \in 1..Len(items) :
                      (/\ items[i].id = vaultOp'.arg
                       /\ startsWith(items[i].authToken, ENCRYPTED_TOKEN_PREFIX)) =>
                          /\ ~vaultOp'.ret.isNull
                          /\ vaultOp'.ret.ANTHROPIC_AUTH_TOKEN
                                \notin {<<>>, items[i].authToken}
      ]_vars

\* the engine's environment was asked for while the key store was
\* available and the file held a corrupted token: the call threw
C14_Witness ==
    /\ vaultOp.op = "getProviderEnvById"
    /\ vaultOp.threw
    /\ encryptionAvailable
    /\ \E i \in 1..Len(providersFile.items) :
          Undecryptable(providersFile.items[i].authToken, TRUE)

\* the stored form of one fixed secret
OtherToken == ENCRYPTED_TOKEN_PREFIX \o toBase64(encryptString(Secret2))

\* the provider file that differs from file only in the content of its
\* non-empty stored tokens, all replaced by the fixed one: two files that
\* differ only in their secrets have the same such file
WithOtherSecrets(file) ==
    [file EXCEPT !.items =
        [i \in 1..Len(file.items) |->
            [file.items[i] EXCEPT !.authToken =
                IF file.items[i].authToken = <<>> THEN <<>> ELSE OtherToken]]]

\* every non-empty stored token is the ciphertext of a secret
HoldsSecrets(file) ==
    \A i \in 1..Len(file.items) :
        \/ file.items[i].authToken = <<>>
        \/ IsCiphertextToken(file.items[i].authToken)

IsSafe(projection) ==
    DOMAIN projection = {"id", "baseUrl", "models", "hasToken", "isDefault"}

C16_PayloadWithoutTokenKeepsSecret ==
    [][(/\ IsVaultCall("saveProviderFromPayload")
        /\ vaultOp'.arg.authToken = <<>>
        /\ findIndex(readProvidersFile(providersFile), vaultOp'.arg.id) > 0
        /\ ~vaultOp'.threw) =>
          LET before == loadProviders(providersFile, encryptionAvailable)
              after == loadProviders(providersFile', encryptionAvailable)
              index == findIndex(before.value, vaultOp'.arg.id)
          IN  /\ before.ok /\ after.ok
              /\ Len(after.value) = Len(before.value)
              /\ after.value[index].id = vaultOp'.arg.id
              /\ after.value[index].authToken = before.value[index].authToken
              /\ after.value[index].baseUrl = vaultOp'.arg.baseUrl
              /\ IsSafe(vaultOp'.ret)
              /\ \A j \in 1..Len(before.value) :
                    j # index => after.value[j] = before.value[j]
      ]_vars

\* a payload without token changed the models of provider 1, which has a
\* secret, in a list that also holds provider 2 with its own secret
C16_Witness ==
    /\ vaultOp.op = "saveProviderFromPayload"
    /\ ~vaultOp.threw
    /\ vaultOp.arg.authToken = <<>>
    /\ vaultOp.arg.models = ValidModels
    /\ Len(providersFile.items) = 2
    /\ \E i, j \in 1..2 :
          /\ providersFile.items[i].id = 1 /\ providersFile.items[j].id = 2
          /\ providersFile.items[i].models = ValidModels
          /\ providersFile.items[i].authToken # <<>>
          /\ providersFile.items[j].authToken # <<>>
          /\ providersFile.items[j].authToken # providersFile.items[i].authToken

\* the list the call of the step handed to saveProvidersAtomic
NewList ==
    LET plan ==
          CASE vaultOp'.op = "saveProviderFromPayload" ->
                  saveProviderFromPayload(vaultOp'.arg, providersFile,
                                          encryptionAvailable, allowLocalRead)
            [] vaultOp'.op = "saveProvider" ->
                  saveProvider(vaultOp'.arg, providersFile, encryptionAvailable)
            [] vaultOp'.op = "deleteProvider" ->
                  deleteProvider(vaultOp'.arg, providersFile, encryptionAvailable)
    IN  List(plan.content)

\* C17: after a save or delete that throws, providers.json holds the
\* complete previous content or the complete new list
C17_NoPartialWrite ==
    [][(/\ encryptionAvailable' = encryptionAvailable
        /\ vaultOp'.op \in {"saveProviderFromPayload", "saveProvider", "deleteProvider"}
        /\ vaultOp'.threw) =>
          (providersFile' = providersFile \/ providersFile' = NewList)
      ]_vars

(***************************************************************************)
(* Properties of concurrent vault calls                                    *)
(***************************************************************************)
\* providers.json after the calls have run one after the other
RECURSIVE OneByOne(_, _)
OneByOne(calls, file) ==
    IF calls = <<>> THEN file
    ELSE LET plan == PlanOf(Head(calls), file)
         IN  OneByOne(Tail(calls),
                      IF plan.writes THEN List(plan.content) ELSE file)

\* C19: whatever the order in which the events of saveProviderFromPayload,
\* saveProvider and deleteProvider calls arrive, no call starts while
\* another is between its read and its write, and providers.json is what
\* the calls that have returned produce when run one after the other in the
\* order of their return
C19_Serialized ==
    /\ Len(inProgress) <= 1
    /\ providersFile = OneByOne(applied, Missing)

\* three calls have returned, the last a save for provider 2 arriving
\* while provider 1 was in the list
C19_Witness ==
    /\ Len(applied) = MaxCalls
    /\ applied[MaxCalls].op = "saveProviderFromPayload"
    /\ applied[MaxCalls].arg.id = 2
    /\ Len(providersFile.items) = 2

(***************************************************************************)
(* Properties of path admission                                            *)
(***************************************************************************)
\* the step is a createSession or updateSession call that handed
\* storeOp'.cwd to sanitizePath
IsPathCall ==
    /\ storeOp'.op \in {"createSession", "updateSession"}
    /\ storeOp'.sanitized
    /\ fs' = fs
    /\ storeNow' = storeNow

HasRejectedToken(inputPath) ==
    \/ includes(inputPath, <<NullByte>>)
    \/ includes(inputPath, <<".", ".">>)
    \/ \E i \in 1..Len(inputPath) :
          inputPath[i] \in {";", "&", "|", Backtick, "$", "<", ">"}

HasQuote(inputPath) ==
    \E i \in 1..Len(inputPath) : inputPath[i] \in {"'", "\""}

IsDirectory(disk, path) == [path |-> path, kind |-> "directory"] \in disk

ResolvedOf(inputPath) == pathResolve(normalize(inputPath), processCwd)

\* the cache holds an entry younger than the time to live that records the
\* path as missing
CachedMissing(path) ==
    \E e \in pathValidationCache :
        /\ e.resolved = path
        /\ ~e.valid
        /\ storeNow - e.timestamp < PATH_CACHE_TTL_MS

\* C20 as the specification states it: a call whose cwd holds a null byte,
\* "..", or one of ; & | ` $ < > throws, and a call whose cwd holds a quote,
\* none of those, and resolves to an existing directory returns the
\* resolved absolute path
C20_AsStated ==
    [][IsPathCall =>
        LET inputPath == storeOp'.cwd
        IN  /\ HasRejectedToken(inputPath) => storeOp'.threw
            /\ (/\ HasQuote(inputPath)
                /\ ~HasRejectedToken(inputPath)
                /\ IsDirectory(fs, ResolvedOf(inputPath))) =>
                  /\ ~storeOp'.threw
                  /\ storeOp'.ret = ResolvedOf(inputPath)
      ]_vars

\* C20: a createSession or updateSession call whose cwd holds a null byte,
\* "..", or one of ; & | ` $ < > throws and leaves the sessions as they
\* were; a call whose cwd holds a quote and none of those, resolves to an
\* existing directory whose absolute path holds no "..", and has no cache
\* entry younger than the time to live that records that path as missing,
\* returns the resolved absolute path
C20_QuotedPathAdmitted ==
    [][IsPathCall =>
        LET inputPath == storeOp'.cwd
        IN  /\ HasRejectedToken(inputPath) =>
                  /\ storeOp'.threw
                  /\ sessions' = sessions
                  /\ db' = db
                  /\ pathValidationCache' = pathValidationCache
            /\ (/\ HasQuote(inputPath)
                /\ ~HasRejectedToken(inputPath)
                /\ IsDirectory(fs, ResolvedOf(inputPath))
                /\ ~includes(ResolvedOf(inputPath), <<".", ".">>)
                /\ ~CachedMissing(ResolvedOf(inputPath))) =>
                  /\ ~storeOp'.threw
                  /\ storeOp'.ret = ResolvedOf(inputPath)
                  /\ isAbsolute(storeOp'.ret)
      ]_vars

\* updateSession took a relative name with a double quote in it and stored
\* the absolute path of the directory, which had been missing and cached
\* as missing before
C20_Witness ==
    /\ storeOp.op = "updateSession"
    /\ storeOp.cwd = QuotedRelative
    /\ ~storeOp.threw
    /\ storeOp.ret = RootCwd \o <<"/">> \o QuotedRelative
    /\ IsDirectory(fs, storeOp.ret)
    /\ sessions[PathSessionId].cwd = storeOp.ret
    /\ db.sessions[PathSessionId].cwd = storeOp.ret
    /\ \E e \in pathValidationCache :
          e.resolved = storeOp.ret /\ e.valid /\ e.timestamp >= PATH_CACHE_TTL_MS

(***************************************************************************)
(* Properties of the sweep timer's lifetime                                *)
(***************************************************************************)
\* C30: once the run has ended (the engine's message stream is over), no
\* setInterval created by createCanUseTool is still armed
C30_SweepTimerCancelled == engine = "stopped" => cleanupIntervalId = NoTimer

\* C21: a createSession or updateSession call whose cwd reached
\* sanitizePath returns only when the resolved path is an existing
\* directory; a path that resolves to a regular file or to nothing throws
C21_OnlyRealDirectories ==
    [][(IsPathCall /\ ~storeOp'.threw) => IsDirectory(fs, storeOp'.ret)]_vars

(***************************************************************************)
(* Properties of sessions across restarts and runs                         *)
(***************************************************************************)
\* the step is a call of op, and not a change of the disk or the clock
\* that left storeOp alone
IsStoreCall(op) ==
    /\ storeOp'.op = op
    /\ fs' = fs
    /\ storeNow' = storeNow

\* sanitizePath has accepted path since the store was opened: with the
\* clock at rest an entry of the cache is never dropped or replaced
PassedSanitizePath(path) ==
    \E entry \in pathValidationCache : entry.resolved = path /\ entry.valid

\* C22: a session handed to runClaude with a cwd has had that cwd accepted
\* by sanitizePath since the store was opened
C22_ValidatedBeforeRun ==
    (storeOp.op = "runClaude" /\ storeOp.cwd # Undefined)
        => PassedSanitizePath(storeOp.cwd)

\* C23: when the store is opened over a row whose cwd is not on the disk,
\* the session is in memory with its id and title, its status is "error"
\* and its cwd is cleared
C23_MissingCwdMarkedOnOpen ==
    [][IsStoreCall("open") =>
        \A id \in DOMAIN db'.sessions :
            (db'.sessions[id].cwd # SqlNull /\ ~existsSync(fs, db'.sessions[id].cwd))
                => /\ id \in DOMAIN sessions'
                   /\ sessions'[id].title = db'.sessions[id].title
                   /\ sessions'[id].status = StatusError
                   /\ sessions'[id].cwd = Undefined]_vars

\* the persisted fields and their columns
PersistedColumns ==
    [title |-> "title", status |-> "status", cwd |-> "cwd",
     allowedTools |-> "allowed_tools", lastPrompt |-> "last_prompt",
     claudeSessionId |-> "claude_session_id", permissionMode |-> "permission_mode"]

\* undefined in memory is NULL in the row
SameValue(field, column) ==
    IF field = Undefined THEN column = SqlNull ELSE column = field

\* C24: the persisted fields of every session in memory equal its row and
\* the ids in memory are the ids of the rows; pendingPermissions and the
\* abort handle have no column
C24_MemoryMirrorsRows ==
    /\ DOMAIN sessions = DOMAIN db.sessions
    /\ \A id \in DOMAIN sessions \cap DOMAIN db.sessions :
          /\ \A k \in DOMAIN PersistedColumns :
                SameValue(sessions[id][k], db.sessions[id][PersistedColumns[k]])
          /\ DOMAIN db.sessions[id] = {PersistedColumns[k] : k \in DOMAIN PersistedColumns}

\* C25: a createSession or updateSession that throws changes neither the
\* sessions in memory nor the rows, and an updateSession of an unknown id
\* returns undefined and changes nothing
C25_RejectedCallChangesNothing ==
    [][/\ ((IsStoreCall("createSession") \/ IsStoreCall("updateSession"))
              /\ storeOp'.threw)
           => (sessions' = sessions /\ db' = db)
       /\ (IsStoreCall("updateSession") /\ storeOp'.id \notin DOMAIN sessions)
           => /\ storeOp'.returns = "undefined"
              /\ ~storeOp'.threw
              /\ sessions' = sessions
              /\ db' = db
              /\ pathValidationCache' = pathValidationCache]_vars

\* an update with a rejected cwd and another field was refused for a
\* session in memory
C25_Witness ==
    /\ storeOp.op = "updateSession"
    /\ storeOp.threw
    /\ storeOp.id \in DOMAIN sessions
    /\ storeOp.cwd = <<"/", "d", ";">>
    /\ sessions[storeOp.id].lastPrompt # <<"q">>
    /\ db.sessions[storeOp.id].last_prompt # <<"q">>

(***************************************************************************)
(* Properties of the recorded messages                                     *)
(***************************************************************************)
RowsWithId(messages, id) == {i \in 1..Len(messages) : messages[i].id = id}

\* C26: recording a message whose uuid is the id of a stored row changes no
\* row, and no two rows ever carry the recorded uuid
C26_RecordIdempotentOnUuid ==
    [][(IsStoreCall("recordMessage") /\ storeOp'.message.uuid # Undefined)
        => /\ RowsWithId(db.messages, storeOp'.message.uuid) # {} => db' = db
           /\ Cardinality(RowsWithId(db'.messages, storeOp'.message.uuid)) <= 1]_vars

\* the message u1/b was recorded for a session that has the row of u1/a
C26_Witness ==
    /\ storeOp.op = "recordMessage"
    /\ storeOp.message = Message(<<"u1">>, <<"b">>)
    /\ ~storeOp.threw
    /\ \E i \in 1..Len(db.messages) :
          /\ db.messages[i].id = <<"u1">>
          /\ db.messages[i].session_id = storeOp.id
          /\ db.messages[i].data = Text(JSONstringify(Message(<<"u1">>, <<"a">>)))

\* C27: getSessionHistory reads the rows of the session in the order they
\* were inserted
C27_HistoryInInsertionOrder ==
    (storeOp.op = "getSessionHistory" /\ ~storeOp.null)
        => storeOp.rows = RowsOf(db.messages, storeOp.id)

\* C28: after deleteSession(id) the session is neither in memory nor in the
\* sessions table and has no message rows, every other session and its
\* messages are as before, and the return value says whether the session
\* was in memory or in the table
C28_DeleteRemovesAllOfOne ==
    [][IsStoreCall("deleteSession") =>
        /\ storeOp'.id \notin DOMAIN sessions'
        /\ storeOp'.id \notin DOMAIN db'.sessions
        /\ RowsOf(db'.messages, storeOp'.id) = <<>>
        /\ \A other \in SessionIds \ {storeOp'.id} :
              /\ other \in DOMAIN sessions <=> other \in DOMAIN sessions'
              /\ other \in DOMAIN sessions => sessions'[other] = sessions[other]
              /\ other \in DOMAIN db.sessions <=> other \in DOMAIN db'.sessions
              /\ other \in DOMAIN db.sessions
                    => db'.sessions[other] = db.sessions[other]
              /\ RowsOf(db'.messages, other) = RowsOf(db.messages, other)
        /\ storeOp'.ret = (storeOp'.id \in DOMAIN sessions
                              \/ storeOp'.id \in DOMAIN db.sessions)]_vars

\* a session was deleted and the other one still has its messages
C28_Witness ==
    /\ storeOp.op = "deleteSession"
    /\ storeOp.ret = TRUE
    /\ storeOp.id \notin DOMAIN sessions
    /\ db.messages # <<>>
    /\ \E other \in DOMAIN sessions : RowsOf(db.messages, other) = db.messages

\* the data of the row is a text holding a JSON object or array
IsObjectText(data) ==
    /\ data.type = "text"
    /\ \/ data.text = <<"[", "]">>
       \/ /\ Len(data.text) >= 2
          /\ data.text[1] = "{"
          /\ data.text[Len(data.text)] = "}"

\* C29: the messages of a history are the parsed data of the well-formed
\* rows, in the order of the rows; the other rows are left out
C29_MalformedRowsSkipped ==
    (storeOp.op = "getSessionHistory" /\ ~storeOp.null)
        => LET sound == SelectSeq(storeOp.rows, LAMBDA row : IsObjectText(row.data))
           IN  storeOp.messages =
                  [i \in 1..Len(sound) |-> JSONparse(sound[i].data.text).value.value]

\* a history was read over a damaged row that is followed by a sound one
C29_Witness ==
    /\ storeOp.op = "getSessionHistory"
    /\ Len(storeOp.rows) = 3
    /\ Len(storeOp.messages) = 2
    /\ ~IsObjectText(storeOp.rows[2].data)
    /\ IsObjectText(storeOp.rows[3].data)

\* C38: a recordMessage for a stored session puts the message among the
\* rows of that session, unless that session already has a row under the
\* message's uuid
C38_RecordedUnlessSameSessionHasUuid ==
    [][(/\ IsStoreCall("recordMessage")
        /\ storeOp'.id \in DOMAIN db.sessions
        /\ ~\E i \in 1..Len(db.messages) :
              /\ db.messages[i].session_id = storeOp'.id
              /\ db.messages[i].id = storeOp'.message.uuid)
        => \E i \in 1..Len(db'.messages) :
              /\ db'.messages[i].session_id = storeOp'.id
              /\ db'.messages[i].data = Text(JSONstringify(storeOp'.message))]_vars

(***************************************************************************)
(* Properties of the path-validation cache                                 *)
(***************************************************************************)
\* the call reached the cache lookup: no rejected token in the input or in
\* the resolved path
ReachesLookup(inputPath) ==
    /\ ~HasRejectedToken(inputPath)
    /\ ~includes(ResolvedOf(inputPath), <<".", ".">>)

\* the cache holds an entry for the path that is younger than the time to live
CachedFresh(path) ==
    \E e \in pathValidationCache :
        e.resolved = path /\ storeNow - e.timestamp < PATH_CACHE_TTL_MS

TargetOf(call) ==
    IF call.op = "saveProviderFromPayload" THEN call.arg.id ELSE call.arg

\* C33: with the key store available, a getProviderEnvById,
\* saveProviderFromPayload or deleteProvider does not fail with the
\* decryption error when the only tokens that fail to decrypt belong to
\* other providers, nor when the call deletes the corrupted provider or
\* gives it a new token
C33_CorruptTokenIsolated ==
    [][(/\ \/ IsVaultCall("getProviderEnvById")
           \/ IsVaultCall("saveProviderFromPayload")
           \/ IsVaultCall("deleteProvider")
        /\ encryptionAvailable
        /\ LET items == readProvidersFile(providersFile)
               corrupt == {i \in 1..Len(items) : Undecryptable(items[i].authToken, TRUE)}
           IN  /\ corrupt # {}
               /\ \/ \A i \in corrupt : items[i].id # TargetOf(vaultOp')
                  \/ vaultOp'.op = "deleteProvider"
                  \/ /\ vaultOp'.op = "saveProviderFromPayload"
                     /\ vaultOp'.arg.authToken # <<>>)
        => ~(/\ vaultOp'.threw
             /\ vaultOp'.error = "Failed to decrypt token - data may be corrupted")]_vars

\* the secret a stored provider holds: its token decrypted, or the token as
\* stored when decryption fails
SecretOf(provider) ==
    LET d == decryptSensitiveData(provider, TRUE)
    IN  IF d.ok THEN d.value.authToken ELSE provider.authToken

\* C35: after a saveProvider that returned, every provider that was in the
\* file under another id is in the file with the same secret
C35_SaveProviderKeepsOthers ==
    [][(IsVaultCall("saveProvider") /\ ~vaultOp'.threw) =>
        LET before == readProvidersFile(providersFile)
            after == readProvidersFile(providersFile')
        IN  \A i \in 1..Len(before) :
                before[i].id # vaultOp'.arg.id
                    => \E j \in 1..Len(after) :
                          /\ after[j].id = before[i].id
                          /\ SecretOf(after[j]) = SecretOf(before[i])]_vars

\* C34: after a save or delete, returned or thrown, the temporary file of
\* saveProvidersAtomic is gone
C34_NoTempFileLeft ==
    vaultOp.op \in {"saveProvider", "saveProviderFromPayload", "deleteProvider"}
        => ~vaultOp.temp

(***************************************************************************)
(* Properties of the pending map's bound and of the request event          *)
(***************************************************************************)
\* C36: session.pendingPermissions never holds more entries than
\* maxPendingPermissions
C36_PendingWithinCap ==
    Cardinality(DOMAIN pendingPermissions) <= fullConfig.maxPendingPermissions

\* a call has just registered the request that fills the map of a session
\* whose cap is above one
C36_Witness ==
    /\ lastCall.outcome = "parked"
    /\ fullConfig.maxPendingPermissions > 1
    /\ Cardinality(DOMAIN pendingPermissions) = fullConfig.maxPendingPermissions
    /\ lastCall.id \in DOMAIN pendingPermissions

\* C37: a permission.response handed over for a request once its
\* permission.request event has been emitted, be it from the event
\* callback itself, finds the entry and resolves the waiter with the
\* decision
C37_DecisionNeverLost ==
    (lastCall.outcome = "parked" /\ lastCall.answer # NoResult)
        => promise[lastCall.id] = Fulfilled(lastCall.answer)

(***************************************************************************)
(* runClaude's background body: the message loop and the session.status    *)
(* events it hands to onEvent.                                             *)
(***************************************************************************)

\* how many events of one run are followed
MaxEvents == 4

\* sendMessage(message): a stream.message event
StreamMessage(subtype) == [type |-> "stream.message", subtype |-> subtype]

\* onEvent({type: "session.status", payload: {status}})
SessionStatus(status) == [type |-> "session.status", status |-> status]

\* what the caller's onEvent does with an event besides passing it on: a
\* callback may store a reported status in the session, or only forward it
onEvent(status, event, stores) ==
    IF stores /\ event.type = "session.status" THEN event.status ELSE status

\* the start handler marks the session running and calls runClaude
RunStart ==
    /\ runPc = "idle"
    /\ runPc' = "streaming"
    /\ sessionStatus' = "running"
    /\ events' = <<>>
    /\ UNCHANGED nonRunVars

\* one iteration of for await (const message of q) for a message that is
\* not a result
AssistantMessage ==
    /\ runPc = "streaming"
    /\ Len(events) < MaxEvents
    /\ events' = Append(events, StreamMessage("assistant"))
    /\ UNCHANGED <<runPc, sessionStatus>>
    /\ UNCHANGED nonRunVars

\* the iteration for the engine's result message: the message goes out and
\* then the status it stands for
ResultMessage(subtype, stores) ==
    /\ runPc = "streaming"
    /\ LET status == IF subtype = "success" THEN "completed" ELSE "error"
           event == SessionStatus(status)
       IN  /\ events' = events \o <<StreamMessage(subtype), event>>
           /\ sessionStatus' = onEvent(sessionStatus, event, stores)
    /\ runPc' = "resulted"
    /\ UNCHANGED nonRunVars

\* the loop ends normally: "completed" is reported while the session still
\* reads running
StreamEnds(stores) ==
    /\ runPc \in {"streaming", "resulted"}
    /\ IF sessionStatus = "running"
       THEN /\ events' = Append(events, SessionStatus("completed"))
            /\ sessionStatus' =
                 onEvent(sessionStatus, SessionStatus("completed"), stores)
       ELSE UNCHANGED <<events, sessionStatus>>
    /\ runPc' = "done"
    /\ UNCHANGED nonRunVars

\* the loop throws: an AbortError ends the run silently, anything else is
\* reported as "error"
StreamThrows(name, stores) ==
    /\ runPc \in {"streaming", "resulted"}
    /\ IF name = "AbortError"
       THEN UNCHANGED <<events, sessionStatus>>
       ELSE /\ events' = Append(events, SessionStatus("error"))
            /\ sessionStatus' =
                 onEvent(sessionStatus, SessionStatus("error"), stores)
    /\ runPc' = "done"
    /\ UNCHANGED nonRunVars

\* session.stop: the handler sets the session idle (and aborts the run)
SessionStop ==
    /\ runPc \in {"streaming", "resulted"}
    /\ sessionStatus' = "idle"
    /\ UNCHANGED <<runPc, events>>
    /\ UNCHANGED nonRunVars

RunInit ==
    /\ LogIdle
    /\ GatewayIdle
    /\ UrlIdle
    /\ VaultIdle
    /\ StoreIdle
    /\ BrowserIdle
    /\ RunIdle

RunNext ==
    \/ RunStart
    \/ AssistantMessage
    \/ \E subtype \in {"success", "error_during_execution", "error_max_turns"},
          stores \in BOOLEAN : ResultMessage(subtype, stores)
    \/ \E stores \in BOOLEAN : StreamEnds(stores)
    \/ \E name \in {"AbortError", "Error"}, stores \in BOOLEAN :
          StreamThrows(name, stores)
    \/ SessionStop

RunSpec == RunInit /\ [][RunNext]_vars

\* the statuses the run has reported, in order
Reported == SelectSeq(events, LAMBDA e : e.type = "session.status")

\* C39: In every run of runClaude, whatever the onEvent callback does, no
\* "completed" status event follows an "error" status event of the run, and
\* once the run is over after a result message with a non-success subtype
\* the last status it reported is "error".
C39_NoCompletedAfterError ==
    /\ \A i, j \in 1..Len(Reported) :
         (i < j /\ Reported[i].status = "error")
            => Reported[j].status # "completed"
    /\ (/\ runPc = "done"
        /\ \E i \in 1..Len(events) :
             /\ events[i].type = "stream.message"
             /\ events[i].subtype \notin {"assistant", "success"})
       => Reported[Len(Reported)].status = "error"

(***************************************************************************)
(* BrowserProcessManager: start(), stop() and restart() as async methods   *)
(* that interleave at their awaits, the spawned Chrome processes and       *)
(* their "exit" and "error" events.                                        *)
(***************************************************************************)

\* how many processes are spawned, and how many calls await at a time
MaxSpawns == 2
MaxBrowserCalls == 2

\* isRunning()
isRunning(status) == status = "running"

\* checkCDPAvailable(): whether something answers on the debug port
checkCDPAvailable(owner) == owner # NoProcess

\* an async call parked at an await
Awaiting(id, op, pc, pid) == [id |-> id, op |-> op, pc |-> pc, pid |-> pid]

FreeCallIds == (1..MaxBrowserCalls) \ {c.id : c \in browserCalls}

\* childProcess.kill(signal)
kill(procs, pid) ==
    [procs EXCEPT ![pid] = IF @ = "alive" THEN "signalled" ELSE @]

\* start() up to its first await: nothing to do when running, otherwise the
\* call waits for the answer of checkCDPAvailable
Start ==
    /\ FreeCallIds # {}
    /\ IF isRunning(browserStatus)
       THEN UNCHANGED browserCalls
       ELSE \E id \in FreeCallIds :
              browserCalls' =
                browserCalls \cup {Awaiting(id, "start", "checking", NoProcess)}
    /\ UNCHANGED <<browserProcess, browserStatus, processes, cdpOwner>>
    /\ UNCHANGED nonBrowserVars

\* start() from the answer of checkCDPAvailable to the await of waitForCDP:
\* an answering port means running; otherwise Chrome is looked up and
\* spawned, and the new process is taken as browserProcess
StartChecked(call, chromePath) ==
    /\ call \in browserCalls
    /\ call.pc = "checking"
    /\ IF checkCDPAvailable(cdpOwner)
       THEN /\ browserStatus' = "running"
            /\ browserCalls' = browserCalls \ {call}
            /\ UNCHANGED <<browserProcess, processes>>
       ELSE IF ~chromePath
       THEN /\ browserStatus' = "error"
            /\ browserCalls' = browserCalls \ {call}
            /\ UNCHANGED <<browserProcess, processes>>
       ELSE /\ Len(processes) < MaxSpawns
            /\ browserStatus' = "starting"
            /\ processes' = Append(processes, "alive")
            /\ browserProcess' = Len(processes) + 1
            /\ browserCalls' =
                 (browserCalls \ {call})
                   \cup {Awaiting(call.id, "start", "waiting", Len(processes) + 1)}
    /\ UNCHANGED cdpOwner
    /\ UNCHANGED nonBrowserVars

\* start() after waitForCDP: running when the port answered, otherwise the
\* catch block kills whatever browserProcess is now and forgets it
StartWaited(call) ==
    /\ call \in browserCalls
    /\ call.pc = "waiting"
    /\ IF checkCDPAvailable(cdpOwner)
       THEN /\ browserStatus' = "running"
            /\ UNCHANGED <<browserProcess, processes>>
       ELSE /\ browserStatus' = "error"
            /\ processes' = IF browserProcess # NoProcess
                            THEN kill(processes, browserProcess)
                            ELSE processes
            /\ browserProcess' = NoProcess
    /\ browserCalls' = browserCalls \ {call}
    /\ UNCHANGED cdpOwner
    /\ UNCHANGED nonBrowserVars

\* stop(), and restart() up to the end of its await stop(): without a
\* managed process the status becomes stopped at once (and restart goes on
\* into start()); otherwise the process is sent SIGTERM and the call waits
\* for its exit
Stop(op) ==
    /\ FreeCallIds # {}
    /\ \E id \in FreeCallIds :
         IF browserProcess = NoProcess
         THEN /\ browserStatus' = "stopped"
              /\ browserCalls' =
                   IF op = "restart"
                   THEN browserCalls
                          \cup {Awaiting(id, "start", "checking", NoProcess)}
                   ELSE browserCalls
              /\ UNCHANGED <<browserProcess, processes>>
         ELSE /\ processes' = kill(processes, browserProcess)
              /\ browserCalls' =
                   browserCalls
                     \cup {Awaiting(id, op, "stopping", browserProcess)}
              /\ UNCHANGED <<browserProcess, browserStatus>>
    /\ UNCHANGED cdpOwner
    /\ UNCHANGED nonBrowserVars

\* the calls whose once("exit") listener is on the process
StoppedBy(pid) == {c \in browserCalls : c.pc = "stopping" /\ c.pid = pid}

\* a process exits (killed, crashed or closed): its "exit" listeners run,
\* the one start() registered and then those of the stop() calls waiting
\* for it; a restart() goes on into start(), which is not running
ProcessExit(pid) ==
    /\ pid \in DOMAIN processes
    /\ processes[pid] \in {"alive", "signalled"}
    /\ processes' = [processes EXCEPT ![pid] = "exited"]
    /\ browserProcess' = NoProcess
    /\ browserStatus' =
         IF StoppedBy(pid) # {} THEN "stopped"
         ELSE IF browserStatus = "running" THEN "error"
         ELSE browserStatus
    /\ browserCalls' =
         (browserCalls \ StoppedBy(pid))
           \cup {Awaiting(c.id, "start", "checking", NoProcess) :
                   c \in {s \in StoppedBy(pid) : s.op = "restart"}}
    /\ cdpOwner' = IF cdpOwner = pid THEN NoProcess ELSE cdpOwner
    /\ UNCHANGED nonBrowserVars

\* the "error" event of a child process that could not be spawned: there
\* is no process after all
ProcessError(pid) ==
    /\ pid \in DOMAIN processes
    /\ processes[pid] = "alive"
    /\ cdpOwner # pid
    /\ processes' = [processes EXCEPT ![pid] = "exited"]
    /\ browserStatus' = "error"
    /\ browserProcess' = NoProcess
    /\ UNCHANGED <<cdpOwner, browserCalls>>
    /\ UNCHANGED nonBrowserVars

\* a Chrome that is up starts answering on the debug port, if the port is
\* free
CdpUp(pid) ==
    /\ pid \in DOMAIN processes
    /\ processes[pid] = "alive"
    /\ cdpOwner = NoProcess
    /\ cdpOwner' = pid
    /\ UNCHANGED <<browserProcess, browserStatus, processes, browserCalls>>
    /\ UNCHANGED nonBrowserVars

BrowserInit ==
    /\ LogIdle
    /\ GatewayIdle
    /\ UrlIdle
    /\ VaultIdle
    /\ StoreIdle
    /\ RunIdle
    /\ BrowserIdle

BrowserNext ==
    \/ Start
    \/ \E call \in browserCalls, chromePath \in BOOLEAN :
          StartChecked(call, chromePath)
    \/ \E call \in browserCalls : StartWaited(call)
    \/ \E op \in {"stop", "restart"} : Stop(op)
    \/ \E pid \in 1..MaxSpawns : ProcessExit(pid)
    \/ \E pid \in 1..MaxSpawns : ProcessError(pid)
    \/ \E pid \in 1..MaxSpawns : CdpUp(pid)

BrowserSpec == BrowserInit /\ [][BrowserNext]_vars

\* the spawned processes that run and have not been sent a signal
Alive == {pid \in DOMAIN processes : processes[pid] = "alive"}

\* C40: BrowserProcessManager manages at most one Chrome process: for any
\* interleaving of start(), stop() and restart(), no two spawned processes
\* are alive together, and every spawned process is the tracked
\* browserProcess or has been killed or has exited.
C40_AtMostOneManagedProcess ==
    /\ Cardinality(Alive) <= 1
    /\ \A pid \in Alive : pid = browserProcess

(***************************************************************************)
(* sanitizeForLog: value.replace(/[\x00-\x1f\x7f]/g, "_") over strings as  *)
(* sequences of UTF-16 code units.                                         *)
(***************************************************************************)

\* how long the logged values are
MaxLogLen == 2

\* the code unit of "_"
Underscore == 95

\* the character class [\x00-\x1f\x7f]
ControlClass == (0..31) \cup {127}

\* the class without DEL
ControlClassNoDel == 0..31

\* String.prototype.replace with the global flag and a one-character
\* class: every code unit of the class gives way to the replacement, left
\* to right, the others are copied
RECURSIVE replaceAll(_, _, _)
replaceAll(value, class, replacement) ==
    IF value = <<>> THEN <<>>
    ELSE <<IF Head(value) \in class THEN replacement ELSE Head(value)>>
           \o replaceAll(Tail(value), class, replacement)

sanitizeForLogKeepsDel(value) == replaceAll(value, ControlClassNoDel, Underscore)

sanitizeForLog(value) == replaceAll(value, ControlClass, Underscore)

\* code units the logged values are made of: NUL, tab, newline, carriage
\* return, ESC, US, space, "_", "~", DEL, and U+0080, U+009B, U+2028 beyond
\* ASCII
LogChars == {0, 9, 10, 13, 27, 31, 32, 95, 126, 127, 128, 155, 8232}

RECURSIVE StringsUpTo(_, _)
StringsUpTo(chars, n) ==
    IF n = 0 THEN {<<>>}
    ELSE LET shorter == StringsUpTo(chars, n - 1)
         IN  shorter \cup {Append(s, c) : s \in shorter, c \in chars}

\* a message is passed through sanitizeForLog on its way to the log
SanitizeForLog ==
    /\ logCalls = 0
    /\ logged' = sanitizeForLog(logValue)
    /\ logCalls' = 1
    /\ UNCHANGED logValue
    /\ UNCHANGED nonLogVars

\* an already sanitized message is sanitized again
SanitizeAgain ==
    /\ logCalls = 1
    /\ logged' = sanitizeForLog(logged)
    /\ logCalls' = 2
    /\ UNCHANGED logValue
    /\ UNCHANGED nonLogVars

LogInit ==
    /\ GatewayIdle
    /\ UrlIdle
    /\ VaultIdle
    /\ StoreIdle
    /\ RunIdle
    /\ BrowserIdle
    /\ logValue \in StringsUpTo(LogChars, MaxLogLen)
    /\ logged = <<>>
    /\ logCalls = 0

LogNext ==
    \/ SanitizeForLog
    \/ SanitizeAgain

LogSpec == LogInit /\ [][LogNext]_vars

\* C31: sanitizeForLog replaces every character in U+0000..U+001F and U+007F
\* by "_" and leaves every other character as it is: the output has the
\* input's length, holds no newline, carriage return, ESC or DEL, and
\* sanitizing twice gives what sanitizing once gives.
C31_ControlCharsBecomeUnderscore ==
    logCalls >= 1 =>
      /\ Len(logged) = Len(logValue)
      /\ \A i \in 1..Len(logValue) :
           logged[i] = IF logValue[i] < 32 \/ logValue[i] = 127
                       THEN 95 ELSE logValue[i]
      /\ \A i \in 1..Len(logged) : logged[i] \notin {10, 13, 27, 127}
      /\ logCalls = 2 =>
           \A i \in 1..Len(logValue) :
             logged[i] = IF logValue[i] < 32 \/ logValue[i] = 127
                         THEN 95 ELSE logValue[i]

\* a value with DEL and a character beyond ASCII has been sanitized twice
C31_Witness ==
    /\ logCalls = 2
    /\ logValue = <<127, 8232>>
    /\ logged = <<95, 8232>>

====
